---- MODULE Spec2Model ----
(***************************************************************************)
(* Routing, response mining and security scanning of the AI code           *)
(* companion, as state machines over bounded inputs.                       *)
(*                                                                         *)
(* Text is modelled as a sequence of one-character strings, so that the    *)
(* regular expressions of the source are matched character by character.   *)
(* The bullet character U+2022 is written "U+2022".                        *)
(***************************************************************************)
EXTENDS Integers, Sequences, FiniteSets, TLC

VARIABLES
    responseText,   \* CopilotIntegration.extractSuggestions: its argument
    docShape,       \* how responseText was composed (description of the input)
    suggestions,    \* CopilotIntegration.extractSuggestions: its return value
    minerPc,        \* "input" before the call, "done" after it
    context,        \* the WorkspaceContext handed to AIModelRouter.routeRequest
    requestedType,  \* explicit modelType of routeRequestToModel ("auto": routeRequest)
    envelope,       \* the result envelope of the request
    lastUsedModel,  \* AIModelRouter.lastUsedModel
    routerPc,       \* "idle", "done" or "failed"
    scanContext,    \* the WorkspaceContext handed to performSecurityScan
    declared,       \* what the manifest of scanContext declares (description of the input)
    scanResult,     \* securityScanResult
    scanPc,         \* "input" before the scan, "done" after it, "rescanned" after more
    relContext,     \* the WorkspaceContext handed to getRelevantFiles
    analysisType,   \* the analysisType handed to getRelevantFiles
    relevantFiles,  \* the Map getRelevantFiles returns, as its entries in order
    relPc,          \* "input" before the call, "done" after it
    disk,           \* the files of the workspace folder: absent, or what the file holds
    contextCache,   \* MCPServer.contextCache.get(workspaceKey)
    pending,        \* the analyzeWorkspace calls in flight
    saving,         \* the updateFileInContext calls in flight
    dateNow,        \* Date.now()
    ticks,          \* how often the clock has advanced
    mcpOutcome,     \* how the last analyzeWorkspace step ended
    copilotEnv,     \* what the host offers: the module, the extensions, the provider
    copilotRequest, \* the analysis type and the number of files of the context
    copilotResult,  \* what AIModelRouter.processWithCopilot returns
    copilotPc,      \* "input" before the call, "done" after it
    telemetrySetting,   \* the configuration value aiCompanion.enableTelemetry
    telemetryInstance,  \* TelemetryService.instance
    telemetryLog,       \* the events written so far
    promptContext,  \* the WorkspaceContext handed to buildPromptForContext
    promptType,     \* the analysisType handed to buildPromptForContext
    prompt,         \* the prompt it returns, as the parts appended
    promptPc,       \* "input" before the call, "done" after it
    lastAnalysisResult, \* lastAnalysisResult of activate
    analysisLog,    \* the analysis commands run so far and how each ended
    lastShown,      \* what the last mcp.showLastAnalysis showed
    plugins,        \* PluginManager.plugins, as its entries in order
    registerLog,    \* the plugins handed to registerPlugin so far
    gotPlugin       \* what the last getPlugin returned

vars == <<responseText, docShape, suggestions, minerPc,
          context, requestedType, envelope, lastUsedModel, routerPc,
          scanContext, declared, scanResult, scanPc,
          relContext, analysisType, relevantFiles, relPc,
          disk, contextCache, pending, saving, dateNow, ticks, mcpOutcome,
          copilotEnv, copilotRequest, copilotResult, copilotPc,
          telemetrySetting, telemetryInstance, telemetryLog,
          promptContext, promptType, prompt, promptPc,
          lastAnalysisResult, analysisLog, lastShown,
          plugins, registerLog, gotPlugin>>

minerVars == <<responseText, docShape, suggestions, minerPc>>
routerVars == <<context, requestedType, envelope, lastUsedModel, routerPc>>
scanVars == <<scanContext, declared, scanResult, scanPc>>
relevanceVars == <<relContext, analysisType, relevantFiles, relPc>>

\* the variables of the components modelled after the first three
cacheVars == <<disk, contextCache, pending, saving, dateNow, ticks, mcpOutcome>>
copilotVars == <<copilotEnv, copilotRequest, copilotResult, copilotPc>>
telemetryVars == <<telemetrySetting, telemetryInstance, telemetryLog>>
coreVars == <<minerVars, routerVars, scanVars>>

\* the variables of the prompt builder, of the commands and of the plugins
promptVars == <<promptContext, promptType, prompt, promptPc>>
commandVars == <<lastAnalysisResult, analysisLog, lastShown>>
pluginVars == <<plugins, registerLog, gotPlugin>>
shellVars == <<promptVars, commandVars, pluginVars>>
serviceVars == <<relevanceVars, cacheVars, copilotVars, telemetryVars, shellVars>>
backVars == <<coreVars, relevanceVars, cacheVars, copilotVars, telemetryVars>>

(***************************************************************************)
(* Strings                                                                 *)
(***************************************************************************)
Min(a, b) == IF a <= b THEN a ELSE b

Max(a, b) == IF a >= b THEN a ELSE b

Range(f) == {f[i] : i \in DOMAIN f}

LowerChars == <<"a", "b", "c", "d", "e", "f", "g", "h", "i", "j", "k", "l", "m", "n", "o", "p", "q", "r", "s", "t", "u", "v", "w", "x", "y", "z">>

UpperChars == <<"A", "B", "C", "D", "E", "F", "G", "H", "I", "J", "K", "L", "M", "N", "O", "P", "Q", "R", "S", "T", "U", "V", "W", "X", "Y", "Z">>

DigitChars == {"0", "1", "2", "3", "4", "5", "6", "7", "8", "9"}

\* \s of the regular expressions (the inputs use space, newline and tab only)
SpaceChars == {" ", "\n", "\t"}

\* \w of the regular expressions
WordChars == Range(LowerChars) \cup Range(UpperChars) \cup DigitChars \cup {"_"}

ToLowerChar(c) ==
    IF c \in Range(UpperChars)
    THEN LowerChars[CHOOSE i \in 1..26 : UpperChars[i] = c]
    ELSE c

\* String.prototype.toLowerCase, and the effect of the /i flag on a pattern
\* written in lower case
ToLower(s) == [i \in 1..Len(s) |-> ToLowerChar(s[i])]

\* s contains sub at position i
StartsAt(s, sub, i) ==
    /\ i >= 1
    /\ i + Len(sub) - 1 <= Len(s)
    /\ \A k \in 1..Len(sub) : s[i + k - 1] = sub[k]

\* String.prototype.includes
Includes(s, sub) == \E i \in 1..(Len(s) - Len(sub) + 1) : StartsAt(s, sub, i)

\* String.prototype.endsWith
EndsWith(s, sub) == StartsAt(s, sub, Len(s) - Len(sub) + 1)

\* /a|b|c/.test(s): some alternative of a list of literals occurs in s
IncludesAny(s, subs) == \E k \in 1..Len(subs) : Includes(s, subs[k])

\* the element of a one-element set: The({e(x) : x \in {v}}) is e(v), with v
\* evaluated once
The(S) == CHOOSE x \in S : TRUE

LeastOf(S) == The({(CHOOSE x \in T : \A y \in T : x <= y) : T \in {S}})

GreatestOf(S) == The({(CHOOSE x \in T : \A y \in T : x >= y) : T \in {S}})

\* first position j >= i whose character is outside C (Len(s)+1 if none):
\* the end of a greedy run [C]*
RunEnd(s, i, C) ==
    LeastOf({j \in i..(Len(s) + 1) : j = Len(s) + 1 \/ s[j] \notin C})

\* String.prototype.trim
Trim(s) ==
    The({IF keep = {} THEN <<>> ELSE SubSeq(s, LeastOf(keep), GreatestOf(keep))
         : keep \in {{i \in 1..Len(s) : s[i] \notin SpaceChars}}})

\* Array.prototype.slice(0, n)
Slice(seq, n) == The({SubSeq(x, 1, Min(n, Len(x))) : x \in {seq}})

\* Array.prototype.join for texts
RECURSIVE Join(_, _)
Join(lines, sep) ==
    IF Len(lines) = 0 THEN <<>>
    ELSE IF Len(lines) = 1 THEN lines[1]
    ELSE lines[1] \o sep \o Join(Tail(lines), sep)

\* String.prototype.split(sep) for a literal separator
RECURSIVE SplitOn(_, _, _)
SplitOn(s, sep, from) ==
    The({IF p > Len(s) THEN <<SubSeq(s, from, Len(s))>>
         ELSE <<SubSeq(s, from, p - 1)>> \o SplitOn(s, sep, p + Len(sep))
         : p \in {LeastOf({Len(s) + 1}
                           \cup {j \in from..Len(s) : StartsAt(s, sep, j)})}})

(***************************************************************************)
(* Values of the state before any input                                    *)
(***************************************************************************)
\* context.selectionMetadata is undefined
NoSelection == [none |-> TRUE]

\* selectionMetadata.containingSymbol is undefined
NoSymbol == <<>>

EmptyContext ==
    [files |-> <<>>, language |-> <<>>, dependencies |-> {}, fileContents |-> <<>>,
     symbols |-> {}, imports |-> {}, selectionMetadata |-> NoSelection]

NoShape == [kind |-> "none"]

NoEnvelope == [none |-> TRUE]

NoScan == [none |-> TRUE]

\* a manifest that declares nothing
NothingDeclared == [dependencies |-> <<>>, devDependencies |-> <<>>]

MinerIdle ==
    /\ responseText = <<>>
    /\ docShape = NoShape
    /\ suggestions = <<>>
    /\ minerPc = "input"

RouterIdle ==
    /\ context = EmptyContext
    /\ requestedType = "auto"
    /\ envelope = NoEnvelope
    /\ lastUsedModel = "null"
    /\ routerPc = "idle"

ScanIdle ==
    /\ scanContext = EmptyContext
    /\ declared = NothingDeclared
    /\ scanResult = NoScan
    /\ scanPc = "input"

RelevanceIdle ==
    /\ relContext = <<>>
    /\ analysisType = "none"
    /\ relevantFiles = <<>>
    /\ relPc = "input"

\* this.contextCache.get(workspaceKey) is undefined
NoContext ==
    [present |-> FALSE, id |-> 0, files |-> <<>>, fileContents |-> <<>>, symbols |-> <<>>,
     imports |-> <<>>, semanticRelationships |-> <<>>, analysisTimestamp |-> 0]

CacheIdle ==
    /\ disk = <<>>
    /\ contextCache = NoContext
    /\ pending = {}
    /\ saving = {}
    /\ dateNow = 0
    /\ ticks = 0
    /\ mcpOutcome = "none"

CopilotIdle ==
    /\ copilotEnv = <<>>
    /\ copilotRequest = <<>>
    /\ copilotResult = <<>>
    /\ copilotPc = "input"

\* TelemetryService.instance is undefined
NoInstance == [constructed |-> FALSE, isEnabled |-> FALSE]

TelemetryIdle ==
    /\ telemetrySetting = FALSE
    /\ telemetryInstance = NoInstance
    /\ telemetryLog = <<>>

PromptIdle ==
    /\ promptContext = <<>>
    /\ promptType = "none"
    /\ prompt = <<>>
    /\ promptPc = "input"

\* lastAnalysisResult is declared and not assigned
Undefined == [kind |-> "undefined", id |-> 0]

CommandIdle ==
    /\ lastAnalysisResult = Undefined
    /\ analysisLog = <<>>
    /\ lastShown = "none"

PluginIdle ==
    /\ plugins = <<>>
    /\ registerLog = <<>>
    /\ gotPlugin = <<>>

ShellIdle == PromptIdle /\ CommandIdle /\ PluginIdle

ServicesIdle == RelevanceIdle /\ CacheIdle /\ CopilotIdle /\ TelemetryIdle /\ ShellIdle

BackIdle ==
    /\ MinerIdle /\ RouterIdle /\ ScanIdle
    /\ RelevanceIdle /\ CacheIdle /\ CopilotIdle /\ TelemetryIdle

(***************************************************************************)
(* Response Miner (CopilotIntegration.extractSuggestions)                  *)
(***************************************************************************)
NoMatch == [ok |-> FALSE]

\* #{1,3}\s+ at position q: one to three '#' and then white space
IsHeadingStart(s, q) ==
    /\ q <= Len(s)
    /\ \E h \in {RunEnd(s, q, {"#"})} :
          /\ h - q \in 1..3
          /\ h <= Len(s)
          /\ s[h] \in SpaceChars

\* (#{1,3})\s+(.+?)(?:\n|$)([\s\S]*?)(?=\n#{1,3}\s+|$) matched from q.
\* h is the end of the '#'.  \s+ is greedy and gives characters back until the
\* title has one character that is not a newline: the title starts at ts (0 if
\* there is no such start) and runs to e, the end of its line; the newline
\* after it, if any, is consumed; the body is the shortest text that is
\* followed by a newline and a heading, or by the end, and stops at f.
SectionFrom(s, q) ==
    IF ~IsHeadingStart(s, q) THEN NoMatch
    ELSE The({
        The({
            IF ts = 0 THEN NoMatch
            ELSE The({
                The({
                    [ok |-> TRUE,
                     title |-> Trim(SubSeq(s, ts, e - 1)),
                     content |-> Trim(SubSeq(s, Min(e, Len(s)) + 1, f - 1)),
                     end |-> f]
                    : f \in {LeastOf({j \in (Min(e, Len(s)) + 1)..(Len(s) + 1) :
                                \/ j = Len(s) + 1
                                \/ (s[j] = "\n" /\ IsHeadingStart(s, j + 1))})}})
                : e \in {RunEnd(s, ts, Range(s) \ {"\n"})}})
            : ts \in {GreatestOf({0} \cup {t \in (h + 1)..RunEnd(s, h, SpaceChars) :
                                            t <= Len(s) /\ s[t] # "\n"})}})
        : h \in {RunEnd(s, q, {"#"})}})

\* (?:^|\n) and then the rest of the pattern, tried at position p.  The
\* alternatives exclude each other: after ^ the text starts with '#'.
SectionAt(s, p) ==
    IF p <= Len(s) /\ s[p] = "\n" THEN SectionFrom(s, p + 1)
    ELSE IF p = 1 THEN SectionFrom(s, 1)
    ELSE NoMatch

\* the exec loop of extractSectionsFromMarkdown, from lastIndex: p is the first
\* position at or after it where the pattern matches (Len(s) + 1 if none)
RECURSIVE SectionsLoop(_, _)
SectionsLoop(s, from) ==
    The({
        IF p > Len(s) THEN <<>>
        ELSE The({
            (IF m.title # <<>> /\ m.content # <<>>
             THEN <<[title |-> m.title, content |-> m.content]>>
             ELSE <<>>)
            \o SectionsLoop(s, m.end)
            : m \in {SectionAt(s, p)}})
        : p \in {LeastOf({Len(s) + 1} \cup
                    {j \in from..Len(s) : SectionAt(s, j).ok})}})

extractSectionsFromMarkdown(text) == SectionsLoop(text, 1)

BulletMarks == {"U+2022", "*", "-"}

\* [\s-]*[•*-][\s]+ matched from q: the position after the marker, 0 if no
\* match.  [\s-]* is greedy and gives back characters until a marker that is
\* followed by white space is found.
BulletLead(s, q) ==
    IF q > Len(s) THEN 0
    ELSE 1 + GreatestOf({-1} \cup
                {m \in q..RunEnd(s, q, SpaceChars \cup {"-"}) :
                    /\ m + 1 <= Len(s)
                    /\ s[m] \in BulletMarks
                    /\ s[m + 1] \in SpaceChars})

\* [\s-]*\d+\.[\s]+ matched from q: the position after the dot, 0 if no match
NumberLead(s, q) ==
    The({
        The({
            IF d > r /\ d + 1 <= Len(s) /\ s[d] = "." /\ s[d + 1] \in SpaceChars
            THEN d + 1 ELSE 0
            : d \in {RunEnd(s, r, DigitChars)}})
        : r \in {RunEnd(s, q, SpaceChars \cup {"-"})}})

Lead(s, q, numbered) == IF numbered THEN NumberLead(s, q) ELSE BulletLead(s, q)

\* (?:^|\n)<lead>(.*?)(?=\n<lead>|\n\n|$) with the s flag, tried at position p.
\* At position 1 both alternatives give the same match, because [\s-]* of the
\* lead takes a newline as well.  l is the position after the lead (0 if it
\* does not match), b the start of the item and f its end.
ItemAt(s, p, numbered) ==
    The({
        IF l = 0 THEN NoMatch
        ELSE The({
            The({
                [ok |-> TRUE, item |-> SubSeq(s, b, f - 1), end |-> f]
                : f \in {LeastOf({j \in b..(Len(s) + 1) :
                            \/ j = Len(s) + 1
                            \/ /\ s[j] = "\n"
                               /\ \/ Lead(s, j + 1, numbered) # 0
                                  \/ (j + 1 <= Len(s) /\ s[j + 1] = "\n")})}})
            : b \in {RunEnd(s, l, SpaceChars)}})
        : l \in {IF p <= Len(s) /\ s[p] = "\n" THEN Lead(s, p + 1, numbered)
                 ELSE IF p = 1 THEN Lead(s, 1, numbered)
                 ELSE 0}})

\* one exec loop of extractItemsFromSection, from lastIndex
RECURSIVE ItemsLoop(_, _, _)
ItemsLoop(s, from, numbered) ==
    The({
        IF p > Len(s) THEN <<>>
        ELSE The({
            The({IF item # <<>> THEN <<item>> ELSE <<>> : item \in {Trim(m.item)}})
            \o ItemsLoop(s, m.end, numbered)
            : m \in {ItemAt(s, p, numbered)}})
        : p \in {LeastOf({Len(s) + 1} \cup
                    {j \in from..Len(s) : ItemAt(s, j, numbered).ok})}})

\* the bulleted items, then the numbered items
extractItemsFromSection(text) ==
    ItemsLoop(text, 1, FALSE) \o ItemsLoop(text, 1, TRUE)

extractListItems(text) == extractItemsFromSection(text)

\* three backticks; a backtick is written "U+0060"
Fence == <<"U+0060", "U+0060", "U+0060">>

\* <fence>(?:\w+)?\n([\s\S]*?)\n<fence> tried at position p: w is the end of the
\* word after the fence, c the first newline after it that a fence follows
\* (Len(s) + 1 if there is none)
CodeBlockAt(s, p) ==
    IF ~StartsAt(s, Fence, p) THEN NoMatch
    ELSE The({
        IF w > Len(s) \/ s[w] # "\n" THEN NoMatch
        ELSE The({
            IF c > Len(s) THEN NoMatch
            ELSE [ok |-> TRUE, block |-> SubSeq(s, w + 1, c - 1), end |-> c + 4]
            : c \in {LeastOf({Len(s) + 1} \cup
                        {j \in (w + 1)..Len(s) : StartsAt(s, <<"\n">> \o Fence, j)})}})
        : w \in {RunEnd(s, p + 3, WordChars)}})

RECURSIVE CodeBlocksLoop(_, _)
CodeBlocksLoop(s, from) ==
    The({
        IF p > Len(s) THEN <<>>
        ELSE The({
            The({IF block # <<>> THEN <<block>> ELSE <<>> : block \in {Trim(m.block)}})
            \o CodeBlocksLoop(s, m.end)
            : m \in {CodeBlockAt(s, p)}})
        : p \in {LeastOf({Len(s) + 1} \cup
                    {j \in from..Len(s) : CodeBlockAt(s, j).ok})}})

extractCodeBlocks(text) == CodeBlocksLoop(text, 1)

\* String.prototype.split(/[.!?]\s+/)
RECURSIVE SplitSentences(_, _)
SplitSentences(s, from) ==
    The({IF p > Len(s) THEN <<SubSeq(s, from, Len(s))>>
         ELSE <<SubSeq(s, from, p - 1)>>
              \o SplitSentences(s, RunEnd(s, p + 1, SpaceChars))
         : p \in {LeastOf({Len(s) + 1} \cup
                     {j \in from..(Len(s) - 1) :
                         s[j] \in {".", "!", "?"} /\ s[j + 1] \in SpaceChars})}})

MinSentenceLen == 30

MaxSentenceLen == 200

MaxSentences == 7

MinChunkLen == 30

MaxChunks == 5

TrimAll(seq) == [i \in 1..Len(seq) |-> Trim(seq[i])]

IsSentence(x) == Len(x) >= MinSentenceLen /\ Len(x) <= MaxSentenceLen

IsChunk(x) == Len(x) >= MinChunkLen

\* the pieces of the text without the filter on their length
extractSentences_unfiltered(text) ==
    Slice(TrimAll(SplitSentences(text, 1)), MaxSentences)

extractSentences(text) ==
    Slice(SelectSeq(TrimAll(SplitSentences(text, 1)), IsSentence), MaxSentences)

extractTextChunks(text) ==
    Slice(SelectSeq(TrimAll(SplitOn(text, <<"\n", "\n">>, 1)), IsChunk), MaxChunks)

ActionWords ==
    <<<<"s", "h", "o", "u", "l", "d">>, <<"c", "o", "n", "s", "i", "d", "e", "r">>, <<"r", "e", "c", "o", "m", "m", "e", "n", "d">>, <<"i", "m", "p", "r", "o", "v", "e">>, <<"o", "p", "t", "i", "m", "i", "z", "e">>,
      <<"r", "e", "f", "a", "c", "t", "o", "r">>, <<"f", "i", "x">>, <<"u", "p", "d", "a", "t", "e">>, <<"a", "d", "d">>, <<"r", "e", "m", "o", "v", "e">>, <<"r", "e", "p", "l", "a", "c", "e">>,
      <<"u", "s", "e", " ", "i", "n", "s", "t", "e", "a", "d">>>>

ConcernWords ==
    <<<<"s", "e", "c", "u", "r", "i", "t", "y">>, <<"p", "e", "r", "f", "o", "r", "m", "a", "n", "c", "e">>, <<"e", "r", "r", "o", "r", " ", "h", "a", "n", "d", "l", "i", "n", "g">>, <<"t", "y", "p", "e", " ", "s", "a", "f", "e", "t", "y">>,
      <<"m", "e", "m", "o", "r", "y", " ", "l", "e", "a", "k">>, <<"v", "a", "l", "i", "d", "a", "t", "i", "o", "n">>, <<"t", "e", "s", "t">>, <<"d", "o", "c", "u", "m", "e", "n", "t", "a", "t", "i", "o", "n">>>>

HedgeWords ==
    <<<<"m", "i", "g", "h", "t">>, <<"m", "a", "y">>, <<"c", "o", "u", "l", "d">>, <<"p", "o", "s", "s", "i", "b", "l", "y">>, <<"p", "e", "r", "h", "a", "p", "s">>, <<"m", "a", "y", "b", "e">>>>

calculatePriority(text) ==
    The({
        The({Max(1, Min(5, p))
             : p \in {2 + (IF IncludesAny(t, ActionWords) THEN 1 ELSE 0)
                        + (IF IncludesAny(t, ConcernWords) THEN 1 ELSE 0)
                        - (IF IncludesAny(t, HedgeWords) THEN 1 ELSE 0)}})
        : t \in {ToLower(text)}})

SecurityWords ==
    <<<<"s", "e", "c", "u", "r", "i", "t", "y">>, <<"v", "u", "l", "n", "e", "r", "a", "b", "i", "l", "i", "t", "y">>, <<"a", "u", "t", "h">>, <<"i", "n", "j", "e", "c", "t", "i", "o", "n">>, <<"x", "s", "s">>,
      <<"c", "s", "r", "f">>, <<"p", "a", "s", "s", "w", "o", "r", "d">>, <<"e", "n", "c", "r", "y", "p", "t">>>>

PerformanceWords ==
    <<<<"p", "e", "r", "f", "o", "r", "m", "a", "n", "c", "e">>, <<"s", "p", "e", "e", "d">>, <<"o", "p", "t", "i", "m", "i", "z", "e">>, <<"s", "l", "o", "w">>, <<"f", "a", "s", "t">>,
      <<"m", "e", "m", "o", "r", "y">>, <<"c", "p", "u">>, <<"e", "f", "f", "i", "c", "i", "e", "n", "t">>>>

ImprovementWords ==
    <<<<"r", "e", "f", "a", "c", "t", "o", "r">>, <<"c", "l", "e", "a", "n">>, <<"n", "a", "m", "i", "n", "g">>, <<"r", "e", "a", "d", "a", "b", "i", "l", "i", "t", "y">>,
      <<"m", "a", "i", "n", "t", "a", "i", "n", "a", "b", "i", "l", "i", "t", "y">>, <<"p", "a", "t", "t", "e", "r", "n">>, <<"d", "e", "s", "i", "g", "n">>>>

PracticeWords ==
    <<<<"p", "r", "a", "c", "t", "i", "c", "e">>, <<"c", "o", "n", "v", "e", "n", "t", "i", "o", "n">>, <<"s", "t", "a", "n", "d", "a", "r", "d">>, <<"l", "i", "n", "t">>, <<"s", "t", "y", "l", "e">>,
      <<"g", "u", "i", "d", "e", "l", "i", "n", "e">>>>

CodeImprovements == <<"C", "o", "d", "e", " ", "I", "m", "p", "r", "o", "v", "e", "m", "e", "n", "t", "s">>

PerformanceOptimizations == <<"P", "e", "r", "f", "o", "r", "m", "a", "n", "c", "e", " ", "O", "p", "t", "i", "m", "i", "z", "a", "t", "i", "o", "n", "s">>

SecurityRecommendations == <<"S", "e", "c", "u", "r", "i", "t", "y", " ", "R", "e", "c", "o", "m", "m", "e", "n", "d", "a", "t", "i", "o", "n", "s">>

BestPractices == <<"B", "e", "s", "t", " ", "P", "r", "a", "c", "t", "i", "c", "e", "s">>

OtherSuggestions == <<"O", "t", "h", "e", "r", " ", "S", "u", "g", "g", "e", "s", "t", "i", "o", "n", "s">>

CodeExamples == <<"C", "o", "d", "e", " ", "E", "x", "a", "m", "p", "l", "e", "s">>

SuggestionsName == <<"S", "u", "g", "g", "e", "s", "t", "i", "o", "n", "s">>

AnalysisName == <<"A", "n", "a", "l", "y", "s", "i", "s">>

\* the keys of the categories object, in insertion order
CategoryOrder ==
    <<CodeImprovements, PerformanceOptimizations, SecurityRecommendations,
      BestPractices, OtherSuggestions>>

\* the category the if-chain of categorizeSuggestions puts an item in
CategoryOf(item) ==
    The({IF IncludesAny(t, SecurityWords) THEN SecurityRecommendations
         ELSE IF IncludesAny(t, PerformanceWords) THEN PerformanceOptimizations
         ELSE IF IncludesAny(t, ImprovementWords) THEN CodeImprovements
         ELSE IF IncludesAny(t, PracticeWords) THEN BestPractices
         ELSE OtherSuggestions
         : t \in {ToLower(item)}})

\* the entries [category, items] of the returned record, in key order
categorizeSuggestions(items) ==
    The({IF Len(result) = 0
         THEN <<[category |-> SuggestionsName, items |-> items]>>
         ELSE result
         : result \in {SelectSeq(
              [k \in 1..Len(CategoryOrder) |->
                  [category |-> CategoryOrder[k],
                   items |-> SelectSeq(items,
                                LAMBDA it : CategoryOf(it) = CategoryOrder[k])]],
              LAMBDA g : Len(g.items) > 0)}})

MaxItemsPerGroup == 5

\* the items as they are, unsorted
SortByPriority_unsorted(items) == items

\* Array.prototype.sort((a, b) => b.priority - a.priority): stable, descending
SortByPriority(items) ==
    LET at(p) == SelectSeq(items, LAMBDA it : it.priority = p)
    IN  at(5) \o at(4) \o at(3) \o at(2) \o at(1)

\* code is <<>> when the item carries no code field
prioritizeAndFormatSuggestions(categorizedSuggestions) ==
    [g \in 1..Len(categorizedSuggestions) |->
        [category |-> categorizedSuggestions[g].category,
         items |-> The({[i \in 1..Len(selectedItems) |->
                            [text |-> selectedItems[i].text,
                             code |-> selectedItems[i].code]]
                        : selectedItems \in
                            {Slice(SortByPriority(categorizedSuggestions[g].items),
                                   MaxItemsPerGroup)}})]]

MaxCodeText == 200

ScoredItems(items) ==
    The({[i \in 1..Len(texts) |->
            [text |-> texts[i], code |-> <<>>,
             priority |-> calculatePriority(texts[i])]]
         : texts \in {items}})

\* the groups pushed for the markdown sections of the text
SectionGroups(text) ==
    SelectSeq(
        The({[k \in 1..Len(sections) |->
                [category |-> sections[k].title,
                 items |-> ScoredItems(extractItemsFromSection(sections[k].content))]]
             : sections \in {extractSectionsFromMarkdown(text)}}),
        LAMBDA g : Len(g.items) > 0)

CodeGroups(text) ==
    The({IF Len(codeBlocks) > 0
         THEN <<[category |-> CodeExamples,
                 items |-> [i \in 1..Len(codeBlocks) |->
                     [text |-> Slice(codeBlocks[i], MaxCodeText)
                               \o (IF Len(codeBlocks[i]) > MaxCodeText
                                   THEN <<".", ".", ".">> ELSE <<>>),
                      code |-> codeBlocks[i],
                      priority |-> 3]]]>>
         ELSE <<>>
         : codeBlocks \in {extractCodeBlocks(text)}})

ListGroups(text) ==
    The({IF Len(listItems) > 0
         THEN The({[k \in 1..Len(categorized) |->
                      [category |-> categorized[k].category,
                       items |-> ScoredItems(categorized[k].items)]]
                   : categorized \in {categorizeSuggestions(listItems)}})
         ELSE <<>>
         : listItems \in {extractListItems(text)}})

SentenceGroups(text) ==
    The({IF Len(sentences) > 0
         THEN <<[category |-> SuggestionsName, items |-> ScoredItems(sentences)]>>
         ELSE <<>>
         : sentences \in {extractSentences(text)}})

ChunkGroups(text) ==
    The({IF Len(chunks) > 0
         THEN <<[category |-> AnalysisName,
                 items |-> [i \in 1..Len(chunks) |->
                              [text |-> chunks[i], code |-> <<>>, priority |-> 1]]]>>
         ELSE <<>>
         : chunks \in {extractTextChunks(text)}})

\* returns after the code blocks, without looking for list items
extractSuggestions_stopAfterCode(responseText_) ==
    The({prioritizeAndFormatSuggestions(found) : found \in {
        The({IF Len(s0) > 0 THEN s0 ELSE
        The({IF Len(s1) > 0 THEN s1 ELSE
        The({IF Len(s2) > 0 THEN s2 ELSE
        The({IF Len(s3) > 0 THEN s3 ELSE ChunkGroups(responseText_)
             : s3 \in {SentenceGroups(responseText_)}})
             : s2 \in {ListGroups(responseText_)}})
             : s1 \in {CodeGroups(responseText_)}})
             : s0 \in {SectionGroups(responseText_)}})}})

\* the groups of the first stage that finds any: the sections; the code
\* blocks and the list items; the sentences; the chunks
extractSuggestions(responseText_) ==
    The({prioritizeAndFormatSuggestions(found) : found \in {
        The({IF Len(s0) > 0 THEN s0 ELSE
        The({IF Len(s1) > 0 THEN s1 ELSE
        The({IF Len(s2) > 0 THEN s2 ELSE ChunkGroups(responseText_)
             : s2 \in {SentenceGroups(responseText_)}})
             : s1 \in {CodeGroups(responseText_) \o ListGroups(responseText_)}})
             : s0 \in {SectionGroups(responseText_)}})}})

(***************************************************************************)
(* Responses handed to the Response Miner                                  *)
(***************************************************************************)
MaxLines == 3

MaxSections == 2

MaxBullets == 2

MaxBlocks == 6

\* a sentence of 33 characters
LongSentence == <<"Y", "o", "u", " ", "s", "h", "o", "u", "l", "d", " ", "v", "a", "l", "i", "d", "a", "t", "e", " ", "i", "n", "p", "u", "t", "s", " ", "e", "a", "r", "l", "y", ".">>

\* the lines free-form responses are made of
LineVocab ==
    <<<<"#", " ", "A">>, <<"-", " ", "f", "i", "x", " ", "x">>, <<"1", ".", " ", "b">>, <<>>, Fence, <<"c", "o", "d", "e">>, LongSentence>>

SectionTitles == <<<<"C", "o", "d", "e", " ", "I", "m", "p", "r", "o", "v", "e", "m", "e", "n", "t", "s">>, <<"T", "i", "p", "s">>>>

\* the text of the i-th bullet of a section
BulletTexts ==
    <<<<"U", "s", "e", " ", "a", "s", "y", "n", "c">>, <<"T", "h", "i", "s", " ", "m", "a", "y", " ", "h", "e", "l", "p">>, <<"A", "d", "d", " ", "a", " ", "t", "e", "s", "t">>, <<"C", "a", "c", "h", "e", " ", "i", "t">>,
      <<"F", "i", "x", " ", "n", "a", "m", "e", "s">>, <<"R", "e", "m", "o", "v", "e", " ", "i", "t">>, <<"U", "p", "d", "a", "t", "e", " ", "i", "t">>>>

LinesOf(idx) == [i \in 1..Len(idx) |-> LineVocab[idx[i]]]

FreeShapes ==
    UNION {{[kind |-> "free", lines |-> l] : l \in [1..n -> 1..Len(LineVocab)]}
           : n \in 1..MaxLines}

SectionChoices ==
    [title : 1..Len(SectionTitles), k : 0..MaxBullets, gap : BOOLEAN]

SectionShapes ==
    UNION {{[kind |-> "sections", sections |-> ss] : ss \in [1..n -> SectionChoices]}
           : n \in 1..MaxSections}

BlockShapes == [kind : {"blocks"}, n : 1..MaxBlocks, withList : BOOLEAN]

\* prose of as many sentences as extractSentences keeps, and of one more
ProseShapes == [kind : {"prose"}, n : {MaxSentences, MaxSentences + 1}]

\* one section with as many bullets as a group keeps, and with all the bullets
ListShapes == [kind : {"list"}, n : {MaxItemsPerGroup, Len(BulletTexts)}]

\* the lines of one section: its heading, a blank line if gap, its bullets
SectionLines(sec) ==
    <<<<"#", "#", " ">> \o SectionTitles[sec.title]>>
    \o (IF sec.gap THEN <<<<>>>> ELSE <<>>)
    \o [i \in 1..sec.k |-> <<"*", " ">> \o BulletTexts[i]]

RECURSIVE Flatten(_)
Flatten(seqs) == IF Len(seqs) = 0 THEN <<>> ELSE Head(seqs) \o Flatten(Tail(seqs))

Render(shape) ==
    IF shape.kind = "free" THEN Join(LinesOf(shape.lines), <<"\n">>)
    ELSE IF shape.kind = "prose" THEN Join([i \in 1..shape.n |-> LongSentence], <<" ">>)
    ELSE IF shape.kind = "list"
    THEN Join(SectionLines([title |-> 2, k |-> shape.n, gap |-> FALSE]), <<"\n">>)
    ELSE IF shape.kind = "sections"
    THEN Join(Flatten([i \in 1..Len(shape.sections) |->
                          SectionLines(shape.sections[i])]), <<"\n">>)
    ELSE Join(Flatten([i \in 1..shape.n |-> <<Fence, <<"c", "o", "d", "e">>, Fence>>])
              \o (IF shape.withList THEN <<<<"-", " ", "f", "i", "x", " ", "x">>>> ELSE <<>>), <<"\n">>)

InitMiner ==
    /\ docShape \in FreeShapes \cup SectionShapes \cup BlockShapes \cup ProseShapes \cup ListShapes
    /\ responseText = Render(docShape)
    /\ suggestions = <<>>
    /\ minerPc = "input"
    /\ RouterIdle
    /\ ScanIdle
    /\ ServicesIdle

\* useRealCopilotApi: suggestions = this.extractSuggestions(responseText)
ExtractSuggestions ==
    /\ minerPc = "input"
    /\ suggestions' = extractSuggestions(responseText)
    /\ minerPc' = "done"
    /\ UNCHANGED <<responseText, docShape>>
    /\ UNCHANGED routerVars
    /\ UNCHANGED scanVars
    /\ UNCHANGED serviceVars

NextMiner == ExtractSuggestions

SpecMiner == InitMiner /\ [][NextMiner]_vars

(***************************************************************************)
(* Model Registry & Router (AIModelRouter)                                 *)
(*                                                                         *)
(* Confidence values are in hundredths: 0.95 is 95.  The sums of the       *)
(* source are IEEE doubles within one unit in the last place of these      *)
(* values, and no comparison between two specialties is decided by that    *)
(* difference but the one of testing 0.4 + 0.2 against security 0.5 + 0.1, *)
(* where testing is registered first and is chosen either way.             *)
(***************************************************************************)
\* this.defaultModel
defaultModel == "code"

\* the keys of this.models, in registration order
ModelOrder == <<"code", "testing", "documentation", "security">>

ModelName(modelType) ==
    CASE modelType = "code" -> "Claude"
      [] modelType = "testing" -> "ChatGPT"
      [] modelType = "documentation" -> "Gemini"
      [] modelType = "security" -> "Anthropic Claude"

ModelAnalysisType(modelType) ==
    CASE modelType = "code" -> "code-analysis"
      [] modelType = "testing" -> "test-analysis"
      [] modelType = "documentation" -> "documentation-analysis"
      [] modelType = "security" -> "security-analysis"

\* this.models.has(modelType)
IsRegistered(modelType) == \E k \in 1..Len(ModelOrder) : ModelOrder[k] = modelType

CodeExtensions ==
    {<<".", "t", "s">>, <<".", "j", "s">>, <<".", "p", "y">>, <<".", "j", "a", "v", "a">>, <<".", "c", "p", "p">>, <<".", "c">>, <<".", "c", "s">>, <<".", "g", "o">>,
     <<".", "r", "s">>, <<".", "p", "h", "p">>}

RECURSIVE SumCounts(_, _)
SumCounts(language, exts) ==
    IF exts = {} THEN 0
    ELSE LET e == CHOOSE x \in exts : TRUE
         IN  language[e] + SumCounts(language, exts \ {e})

\* Array.from(context.fileContents.keys()) and .values()
Keys(fileContents) == [i \in 1..Len(fileContents) |-> fileContents[i].path]

Values(fileContents) == [i \in 1..Len(fileContents) |-> fileContents[i].content]

\* filter(...).length
CountIf(seq, P(_)) == Len(SelectSeq(seq, P))

\* the two base values the wrong way round
codeConfidence_swappedBase(ctx) ==
    LET codeFiles == SumCounts(ctx.language, DOMAIN ctx.language \cap CodeExtensions)
        hasSymbols == Cardinality(ctx.symbols) > 0
        hasImports == Cardinality(ctx.imports) > 0
    IN  Min(95, (IF codeFiles > 0 THEN 30 ELSE 70)
                + (IF hasSymbols THEN 15 ELSE 0)
                + (IF hasImports THEN 10 ELSE 0))

codeConfidence(ctx) ==
    LET codeFiles == SumCounts(ctx.language, DOMAIN ctx.language \cap CodeExtensions)
        hasSymbols == Cardinality(ctx.symbols) > 0
        hasImports == Cardinality(ctx.imports) > 0
    IN  Min(95, (IF codeFiles > 0 THEN 70 ELSE 30)
                + (IF hasSymbols THEN 15 ELSE 0)
                + (IF hasImports THEN 10 ELSE 0))

TestFrameworks ==
    {<<"j", "e", "s", "t">>, <<"m", "o", "c", "h", "a">>, <<"j", "a", "s", "m", "i", "n", "e">>, <<"k", "a", "r", "m", "a">>, <<"p", "y", "t", "e", "s", "t">>, <<"u", "n", "i", "t", "t", "e", "s", "t">>,
     <<"c", "y", "p", "r", "e", "s", "s">>, <<"s", "e", "l", "e", "n", "i", "u", "m">>}

testingConfidence(ctx) ==
    LET testFiles == CountIf(Keys(ctx.fileContents),
                         LAMBDA file : Includes(file, <<"t", "e", "s", "t">>) \/ Includes(file, <<"s", "p", "e", "c">>))
        hasTestDeps == \E dep \in ctx.dependencies : dep \in TestFrameworks
    IN  Min(95, (IF testFiles > 0 THEN 70 ELSE 40) + (IF hasTestDeps THEN 20 ELSE 0))

\* 0.3 in place of 0.5 when there is no documentation file
documentationConfidence_lowBase(ctx) ==
    LET docFiles == CountIf(Keys(ctx.fileContents),
                        LAMBDA file : \/ EndsWith(file, <<".", "m", "d">>)
                                      \/ EndsWith(file, <<".", "t", "x", "t">>)
                                      \/ Includes(file, <<"R", "E", "A", "D", "M", "E">>)
                                      \/ Includes(file, <<"C", "O", "N", "T", "R", "I", "B", "U", "T", "I", "N", "G">>)
                                      \/ Includes(file, <<"d", "o", "c", "s", "/">>))
        hasApiDocs == \E i \in 1..Len(ctx.fileContents) :
                         LET content == ctx.fileContents[i].content
                         IN  \/ Includes(content, <<"@", "a", "p", "i">>)
                             \/ Includes(content, <<"*", " ", "@", "p", "a", "r", "a", "m">>)
                             \/ Includes(content, <<"/", "*", "*">>)
                             \/ Includes(content, <<"/", "/", "/">>)
    IN  Min(95, (IF docFiles > 0 THEN 70 ELSE 30) + (IF hasApiDocs THEN 20 ELSE 0))

documentationConfidence(ctx) ==
    LET docFiles == CountIf(Keys(ctx.fileContents),
                        LAMBDA file : \/ EndsWith(file, <<".", "m", "d">>)
                                      \/ EndsWith(file, <<".", "t", "x", "t">>)
                                      \/ Includes(file, <<"R", "E", "A", "D", "M", "E">>)
                                      \/ Includes(file, <<"C", "O", "N", "T", "R", "I", "B", "U", "T", "I", "N", "G">>)
                                      \/ Includes(file, <<"d", "o", "c", "s", "/">>))
        hasApiDocs == \E i \in 1..Len(ctx.fileContents) :
                         LET content == ctx.fileContents[i].content
                         IN  \/ Includes(content, <<"@", "a", "p", "i">>)
                             \/ Includes(content, <<"*", " ", "@", "p", "a", "r", "a", "m">>)
                             \/ Includes(content, <<"/", "*", "*">>)
                             \/ Includes(content, <<"/", "/", "/">>)
    IN  Min(95, (IF docFiles > 0 THEN 70 ELSE 50) + (IF hasApiDocs THEN 20 ELSE 0))

SecurityPackages ==
    {<<"b", "c", "r", "y", "p", "t">>, <<"c", "r", "y", "p", "t", "o">>, <<"j", "s", "o", "n", "w", "e", "b", "t", "o", "k", "e", "n">>, <<"p", "a", "s", "s", "p", "o", "r", "t">>, <<"h", "e", "l", "m", "e", "t">>,
     <<"s", "s", "l">>, <<"a", "u", "t", "h", "0">>}

securityConfidence(ctx) ==
    LET securityFiles == CountIf(Keys(ctx.fileContents),
                             LAMBDA file : \/ Includes(file, <<"a", "u", "t", "h">>)
                                           \/ Includes(file, <<"s", "e", "c", "u", "r", "i", "t", "y">>)
                                           \/ Includes(file, <<"c", "r", "y", "p", "t", "o">>)
                                           \/ Includes(file, <<"p", "a", "s", "s", "w", "o", "r", "d">>)
                                           \/ Includes(file, <<"l", "o", "g", "i", "n">>)
                                           \/ EndsWith(file, <<".", "e", "n", "v">>))
        hasSecurityDeps == \E dep \in ctx.dependencies : ToLower(dep) \in SecurityPackages
        securityPatterns == \E i \in 1..Len(ctx.fileContents) :
                               LET content == ctx.fileContents[i].content
                               IN  \/ Includes(content, <<"p", "a", "s", "s", "w", "o", "r", "d">>)
                                   \/ Includes(content, <<"t", "o", "k", "e", "n">>)
                                   \/ Includes(content, <<"s", "e", "c", "r", "e", "t">>)
                                   \/ Includes(content, <<"e", "n", "c", "r", "y", "p", "t">>)
                                   \/ Includes(content, <<"d", "e", "c", "r", "y", "p", "t">>)
    IN  Min(95, 50 + (IF securityFiles > 0 THEN 20 ELSE 0)
                   + (IF hasSecurityDeps THEN 15 ELSE 0)
                   + (IF securityPatterns THEN 10 ELSE 0))

\* this.models.get(modelType).confidence(context)
Confidence(modelType, ctx) ==
    CASE modelType = "code" -> codeConfidence(ctx)
      [] modelType = "testing" -> testingConfidence(ctx)
      [] modelType = "documentation" -> documentationConfidence(ctx)
      [] modelType = "security" -> securityConfidence(ctx)

\* the documentation rule tried before the test rule
SelectionModelType_docFirst(metadata) ==
    IF \/ metadata.language = "markdown"
       \/ EndsWith(metadata.fileName, <<".", "m", "d">>)
       \/ Includes(metadata.selectedText, <<"/", "*", "*">>)
       \/ Includes(metadata.selectedText, <<"/", "/", "/">>)
    THEN "documentation"
    ELSE IF \/ Includes(metadata.fileName, <<"t", "e", "s", "t">>)
            \/ Includes(metadata.fileName, <<"s", "p", "e", "c">>)
            \/ (metadata.containingSymbol # NoSymbol
                /\ Includes(metadata.containingSymbol, <<"t", "e", "s", "t">>))
            \/ (metadata.containingSymbol # NoSymbol
                /\ Includes(metadata.containingSymbol, <<"T", "e", "s", "t">>))
    THEN "testing"
    ELSE "code"

\* the rules for a context that carries selectionMetadata
SelectionModelType(metadata) ==
    IF \/ Includes(metadata.fileName, <<"t", "e", "s", "t">>)
       \/ Includes(metadata.fileName, <<"s", "p", "e", "c">>)
       \/ (metadata.containingSymbol # NoSymbol
           /\ Includes(metadata.containingSymbol, <<"t", "e", "s", "t">>))
       \/ (metadata.containingSymbol # NoSymbol
           /\ Includes(metadata.containingSymbol, <<"T", "e", "s", "t">>))
    THEN "testing"
    ELSE IF \/ metadata.language = "markdown"
            \/ EndsWith(metadata.fileName, <<".", "m", "d">>)
            \/ Includes(metadata.selectedText, <<"/", "*", "*">>)
            \/ Includes(metadata.selectedText, <<"/", "/", "/">>)
    THEN "documentation"
    ELSE IF \/ Includes(metadata.selectedText, <<"c", "o", "n", "s", "o", "l", "e", ".", "l", "o", "g">>)
            \/ Includes(metadata.selectedText, <<"d", "e", "b", "u", "g", "g", "e", "r">>)
            \/ Includes(metadata.selectedText, <<"c", "a", "t", "c", "h">>)
            \/ Includes(metadata.selectedText, <<"e", "r", "r", "o", "r">>)
            \/ Includes(metadata.selectedText, <<"e", "x", "c", "e", "p", "t", "i", "o", "n">>)
    THEN "debugging"
    ELSE "code"

\* the loop with >= in place of >: the last of several equal maxima wins
RECURSIVE BestModelFrom_lastWins(_, _, _, _)
BestModelFrom_lastWins(ctx, k, bestModel, highestConfidence) ==
    IF k > Len(ModelOrder) THEN bestModel
    ELSE IF Confidence(ModelOrder[k], ctx) >= highestConfidence
    THEN BestModelFrom_lastWins(ctx, k + 1, ModelOrder[k], Confidence(ModelOrder[k], ctx))
    ELSE BestModelFrom_lastWins(ctx, k + 1, bestModel, highestConfidence)

\* the loop over this.models.entries(), from entry k on
RECURSIVE BestModelFrom(_, _, _, _)
BestModelFrom(ctx, k, bestModel, highestConfidence) ==
    IF k > Len(ModelOrder) THEN bestModel
    ELSE IF Confidence(ModelOrder[k], ctx) > highestConfidence
    THEN BestModelFrom(ctx, k + 1, ModelOrder[k], Confidence(ModelOrder[k], ctx))
    ELSE BestModelFrom(ctx, k + 1, bestModel, highestConfidence)

determineModelType(ctx) ==
    IF ctx.selectionMetadata # NoSelection
    THEN SelectionModelType(ctx.selectionMetadata)
    ELSE BestModelFrom(ctx, 1, defaultModel, 0)

calculateConfidenceScore(ctx, modelType) ==
    IF ~IsRegistered(modelType) THEN 50 ELSE Confidence(modelType, ctx)

Digits == <<"0", "1", "2", "3", "4", "5", "6", "7", "8", "9">>

\* Number.prototype.toFixed(2) of a value of at most 1, given in hundredths
ToFixed2(hundredths) ==
    <<Digits[(hundredths \div 100) + 1], ".",
      Digits[((hundredths \div 10) % 10) + 1], Digits[(hundredths % 10) + 1]>>

\* this.models.get(modelType) || this.models.get(this.defaultModel)
ResolveModel(modelType) ==
    IF IsRegistered(modelType) THEN modelType
    ELSE IF IsRegistered(defaultModel) THEN defaultModel
    ELSE "none"

\* the analysisType argument the specialty's process function passes on
CopilotAnalysisType(model) ==
    CASE model = "code" -> "code"
      [] model = "testing" -> "test"
      [] model = "documentation" -> "docs"
      [] model = "security" -> "security"

\* the type field of the value the specialty's process function returns
ProcessType(model) == ModelAnalysisType(model)

\* the envelope routeRequestToModel returns
Envelope(ctx, modelType) ==
    LET model == ResolveModel(modelType)
    IN  [modelUsed |-> ModelName(model),
         modelType |-> modelType,
         confidenceScore |-> ToFixed2(calculateConfidenceScore(ctx, modelType)),
         analysisType |-> ModelAnalysisType(model),
         results |-> [type |-> ProcessType(model),
                      analysisType |-> CopilotAnalysisType(model)],
         selectionMetadata |-> ctx.selectionMetadata]

(***************************************************************************)
(* Contexts handed to the router, and its operations                       *)
(***************************************************************************)
MaxFiles == 1

MaxLangCount == 1

MaxKeyedFiles == 1

\* path.basename
Basename(p) ==
    LET slashes == {i \in 1..Len(p) : p[i] = "/"}
    IN  IF slashes = {} THEN p ELSE SubSeq(p, GreatestOf(slashes) + 1, Len(p))

\* path.extname: from the last dot of the base name, unless that dot is its
\* first character
Extname(p) ==
    LET base == Basename(p)
        dots == {i \in 2..Len(base) : base[i] = "."}
    IN  IF dots = {} THEN <<>> ELSE SubSeq(base, GreatestOf(dots), Len(base))

PathVocab == {<<"/", "s", "r", "c", "/", "a", "p", "p", ".", "t", "s">>, <<"/", "t", "e", "s", "t", "/", "R", "E", "A", "D", "M", "E", ".", "m", "d">>, <<"/", "t", "e", "s", "t", "/", "a", "u", "t", "h", ".", "t", "s">>}

ContentVocab == {<<"x">>, <<"/", "*", "*", " ", "d", " ", "*", "/">>, <<"a", " ", "t", "o", "k", "e", "n">>}

LanguageVocab == {<<".", "t", "s">>, <<".", "m", "d">>}

DependencyVocab == {<<"j", "e", "s", "t">>, <<"H", "e", "l", "m", "e", "t">>}

InitRouter ==
    /\ context = EmptyContext
    /\ requestedType = "auto"
    /\ envelope = NoEnvelope
    /\ lastUsedModel = "null"
    /\ routerPc = "idle"
    /\ MinerIdle
    /\ ScanIdle
    /\ ServicesIdle

\* a file and its content enter the context
AddFile(path, content) ==
    /\ routerPc = "idle"
    /\ Len(context.files) < MaxFiles
    /\ path \notin Range(context.files)
    /\ context' = [context EXCEPT
                     !.files = Append(@, path),
                     !.fileContents = Append(@, [path |-> path, content |-> content])]
    /\ UNCHANGED <<requestedType, envelope, lastUsedModel, routerPc>>
    /\ UNCHANGED minerVars
    /\ UNCHANGED scanVars
    /\ UNCHANGED serviceVars

\* context.language.set(ext, (context.language.get(ext) || 0) + 1)
CountLanguage(ext) ==
    /\ routerPc = "idle"
    /\ (ext \in DOMAIN context.language => context.language[ext] < MaxLangCount)
    /\ context' = [context EXCEPT !.language =
                     [e \in DOMAIN context.language \cup {ext} |->
                         IF e = ext
                         THEN (IF ext \in DOMAIN context.language
                               THEN context.language[ext] ELSE 0) + 1
                         ELSE context.language[e]]]
    /\ UNCHANGED <<requestedType, envelope, lastUsedModel, routerPc>>
    /\ UNCHANGED minerVars
    /\ UNCHANGED scanVars
    /\ UNCHANGED serviceVars

\* context.symbols.set(path, symbols)
AddSymbols(path) ==
    /\ routerPc = "idle"
    /\ path \in Range(context.files)
    /\ path \notin context.symbols
    /\ Cardinality(context.symbols) < MaxKeyedFiles
    /\ context' = [context EXCEPT !.symbols = @ \cup {path}]
    /\ UNCHANGED <<requestedType, envelope, lastUsedModel, routerPc>>
    /\ UNCHANGED minerVars
    /\ UNCHANGED scanVars
    /\ UNCHANGED serviceVars

\* context.imports.set(path, imports)
AddImports(path) ==
    /\ routerPc = "idle"
    /\ path \in Range(context.files)
    /\ path \notin context.imports
    /\ Cardinality(context.imports) < MaxKeyedFiles
    /\ context' = [context EXCEPT !.imports = @ \cup {path}]
    /\ UNCHANGED <<requestedType, envelope, lastUsedModel, routerPc>>
    /\ UNCHANGED minerVars
    /\ UNCHANGED scanVars
    /\ UNCHANGED serviceVars

\* a package enters context.dependencies
AddDependency(dep) ==
    /\ routerPc = "idle"
    /\ dep \notin context.dependencies
    /\ context' = [context EXCEPT !.dependencies = @ \cup {dep}]
    /\ UNCHANGED <<requestedType, envelope, lastUsedModel, routerPc>>
    /\ UNCHANGED minerVars
    /\ UNCHANGED scanVars
    /\ UNCHANGED serviceVars

\* the body of routeRequestToModel(context, modelType)
RouteTo(modelType) ==
    IF ResolveModel(modelType) = "none"
    THEN /\ routerPc' = "failed"
         /\ envelope' = [error |-> "No model available for analysis"]
    ELSE /\ routerPc' = "done"
         /\ envelope' = Envelope(context, modelType)

\* AIModelRouter.routeRequest(context)
RouteRequest ==
    /\ routerPc = "idle"
    /\ RouteTo(determineModelType(context))
    /\ lastUsedModel' = IF context.selectionMetadata = NoSelection
                        THEN determineModelType(context)
                        ELSE lastUsedModel
    /\ requestedType' = "auto"
    /\ UNCHANGED context
    /\ UNCHANGED minerVars
    /\ UNCHANGED scanVars
    /\ UNCHANGED serviceVars

\* AIModelRouter.routeRequestToModel(context, modelType), called with one of
\* getAvailableModelTypes()
RouteRequestToModel(modelType) ==
    /\ routerPc = "idle"
    /\ RouteTo(modelType)
    /\ requestedType' = modelType
    /\ UNCHANGED <<context, lastUsedModel>>
    /\ UNCHANGED minerVars
    /\ UNCHANGED scanVars
    /\ UNCHANGED serviceVars

NextRouter ==
    \/ \E path \in PathVocab, content \in ContentVocab : AddFile(path, content)
    \/ \E ext \in LanguageVocab : CountLanguage(ext)
    \/ \E path \in PathVocab : AddSymbols(path)
    \/ \E path \in PathVocab : AddImports(path)
    \/ \E dep \in DependencyVocab : AddDependency(dep)
    \/ RouteRequest

SpecRouter == InitRouter /\ [][NextRouter]_vars

SelectionFiles == {<<"/", "p", "/", "a", ".", "t", "e", "s", "t", ".", "t", "s">>, <<"/", "p", "/", "a", ".", "t", "s">>, <<"/", "p", "/", "a", ".", "m", "d">>}

SelectionLanguages == {"typescript", "markdown"}

SelectionTexts == {<<"x", " ", "=", " ", "1">>, <<"/", "*", "*", " ", "d", " ", "*", "/">>, <<"c", "o", "n", "s", "o", "l", "e", ".", "l", "o", "g", "(", "e", ")">>, <<"/", "*", "*", " ", "c", "a", "t", "c", "h", " ", "*", "/">>}

SelectionSymbols == {NoSymbol, <<"t", "e", "s", "t", "F", "o", "o">>, <<"r", "u", "n">>}

\* the context analyzeSelection builds for a selection in a document
SelectionContext(path, content, languageId, selectedText, symbol, deps, hasSymbols) ==
    [files |-> <<path>>,
     language |-> [e \in {Extname(path)} |-> 1],
     dependencies |-> deps,
     fileContents |-> <<[path |-> path, content |-> content]>>,
     symbols |-> IF hasSymbols THEN {path} ELSE {},
     imports |-> {path},
     selectionMetadata |-> [selectedText |-> selectedText,
                            fileName |-> Basename(path),
                            language |-> languageId,
                            containingSymbol |-> symbol]]

InitSelection ==
    /\ \E path \in SelectionFiles, content \in ContentVocab,
          languageId \in SelectionLanguages, selectedText \in SelectionTexts,
          symbol \in SelectionSymbols, deps \in SUBSET DependencyVocab,
          hasSymbols \in BOOLEAN :
          context = SelectionContext(path, content, languageId, selectedText,
                                     symbol, deps, hasSymbols)
    /\ requestedType = "auto"
    /\ envelope = NoEnvelope
    /\ lastUsedModel = "null"
    /\ routerPc = "idle"
    /\ MinerIdle
    /\ ScanIdle
    /\ ServicesIdle

NextSelection ==
    \/ RouteRequest
    \/ \E modelType \in Range(ModelOrder) : RouteRequestToModel(modelType)

SpecSelection == InitSelection /\ [][NextSelection]_vars

(***************************************************************************)
(* Security Scanner (AIModelRouter.performSecurityScan)                    *)
(*                                                                         *)
(* A file content is a record: its text, the value JSON.parse gives for it *)
(* (not valid when it throws), and what the fixed tables of the scanner    *)
(* find in it: the patterns of vulnerabilityPatterns that match it and the *)
(* JavaScript and Python checks whose condition it fulfils.  The version   *)
(* strings of a manifest are texts and are parsed character by character.  *)
(***************************************************************************)
\* NaN, the result of parseInt on a text that does not start with a digit
NaN == -1

DigitValue(c) == (CHOOSE i \in 1..10 : Digits[i] = c) - 1

\* parseInt(p, 10) of a text of digits and dots: the digits before the first
\* other character, NaN when there is none
RECURSIVE DigitsValue(_)
DigitsValue(ds) ==
    IF Len(ds) = 0 THEN 0
    ELSE 10 * DigitsValue(SubSeq(ds, 1, Len(ds) - 1)) + DigitValue(ds[Len(ds)])

parseInt(p) ==
    LET e == RunEnd(p, 1, DigitChars)
    IN  IF e = 1 THEN NaN ELSE DigitsValue(SubSeq(p, 1, e - 1))

\* version.split('.').map(p => parseInt(p, 10))
VersionParts(version) ==
    LET pieces == SplitOn(version, <<".">>, 1)
    IN  [i \in 1..Len(pieces) |-> parseInt(pieces[i])]

\* parts[i] || 0, parts[i] being undefined past the end
PartOrZero(parts, i) ==
    IF i > Len(parts) \/ parts[i] = NaN THEN 0 ELSE parts[i]

RECURSIVE VersionLoop(_, _, _)
VersionLoop(v1Parts, v2Parts, i) ==
    IF i > Max(Len(v1Parts), Len(v2Parts)) THEN FALSE
    ELSE IF PartOrZero(v1Parts, i) < PartOrZero(v2Parts, i) THEN TRUE
    ELSE IF PartOrZero(v1Parts, i) > PartOrZero(v2Parts, i) THEN FALSE
    ELSE VersionLoop(v1Parts, v2Parts, i + 1)

\* compares the first components only
isVersionLowerThan_majorOnly(version, compareVersion) ==
    PartOrZero(VersionParts(version), 1) < PartOrZero(VersionParts(compareVersion), 1)

isVersionLowerThan(version, compareVersion) ==
    VersionLoop(VersionParts(version), VersionParts(compareVersion), 1)

\* String(versionRange).replace(/[^0-9.]/g, '')
CleanVersion(versionRange) ==
    SelectSeq(versionRange, LAMBDA c : c \in DigitChars \cup {"."})

knownVulnerableDependencies ==
    <<[name |-> <<"l", "o", "d", "a", "s", "h">>, vulnerableBelow |-> <<"4", ".", "1", "7", ".", "2", "1">>, severity |-> "high",
       issue |-> "Prototype pollution vulnerabilities"],
      [name |-> <<"j", "q", "u", "e", "r", "y">>, vulnerableBelow |-> <<"3", ".", "5", ".", "0">>, severity |-> "high",
       issue |-> "Cross-site scripting vulnerabilities"],
      [name |-> <<"a", "x", "i", "o", "s">>, vulnerableBelow |-> <<"0", ".", "2", "1", ".", "1">>, severity |-> "high",
       issue |-> "Server-side request forgery"],
      [name |-> <<"e", "x", "p", "r", "e", "s", "s">>, vulnerableBelow |-> <<"4", ".", "1", "7", ".", "3">>, severity |-> "medium",
       issue |-> "Open redirect vulnerability"],
      [name |-> <<"r", "e", "a", "c", "t">>, vulnerableBelow |-> <<"1", "6", ".", "3", ".", "0">>, severity |-> "medium",
       issue |-> "Cross-site scripting vulnerability"],
      [name |-> <<"n", "o", "d", "e", "-", "f", "e", "t", "c", "h">>, vulnerableBelow |-> <<"2", ".", "6", ".", "7">>, severity |-> "medium",
       issue |-> "Exposure of sensitive information"],
      [name |-> <<"m", "i", "n", "i", "m", "i", "s", "t">>, vulnerableBelow |-> <<"1", ".", "2", ".", "6">>, severity |-> "medium",
       issue |-> "Prototype pollution"]>>

pyKnownVulns ==
    <<[name |-> <<"d", "j", "a", "n", "g", "o">>, vulnerableBelow |-> <<"3", ".", "2", ".", "1", "3">>, severity |-> "high",
       issue |-> "SQL injection vulnerabilities"],
      [name |-> <<"f", "l", "a", "s", "k">>, vulnerableBelow |-> <<"2", ".", "0", ".", "1">>, severity |-> "medium",
       issue |-> "Security issues in sessions handling"],
      [name |-> <<"r", "e", "q", "u", "e", "s", "t", "s">>, vulnerableBelow |-> <<"2", ".", "2", "6", ".", "0">>, severity |-> "medium",
       issue |-> "CRLF injection vulnerability"],
      [name |-> <<"c", "r", "y", "p", "t", "o", "g", "r", "a", "p", "h", "y">>, vulnerableBelow |-> <<"3", "6", ".", "0", ".", "0">>, severity |-> "medium",
       issue |-> "Bleichenbacher timing oracle"]>>

\* table[name]: the entries of the table with that name (at most one)
Known(table, name) == SelectSeq(table, LAMBDA k : k.name = name)

\* context.fileContents.has(path) and .get(path)
HasContent(ctx, path) == \E i \in 1..Len(ctx.fileContents) : ctx.fileContents[i].path = path

GetContent(ctx, path) ==
    ctx.fileContents[CHOOSE i \in 1..Len(ctx.fileContents) : ctx.fileContents[i].path = path].content

\* context.files.find(file => path.basename(file) === name): <<>> if none
FindFile(ctx, name) ==
    LET hits == {i \in 1..Len(ctx.files) : Basename(ctx.files[i]) = name}
    IN  IF hits = {} THEN <<>> ELSE ctx.files[LeastOf(hits)]

\* {...a, ...b} on sequences of [name, version] entries with distinct names:
\* the keys of a in order, then the new keys of b; the values of b win
Spread(a, b) ==
    LET inB(n) == \E j \in 1..Len(b) : b[j].name = n
        inA(n) == \E j \in 1..Len(a) : a[j].name = n
        fromB(n) == b[CHOOSE j \in 1..Len(b) : b[j].name = n]
    IN  [i \in 1..Len(a) |-> IF inB(a[i].name) THEN fromB(a[i].name) ELSE a[i]]
        \o SelectSeq(b, LAMBDA e : ~inA(e.name))

UpdateText(name, version) ==
    <<"U", "p", "d", "a", "t", "e", " ">> \o name \o <<" ", "t", "o", " ", "v", "e", "r", "s", "i", "o", "n", " ">> \o version \o <<" ", "o", "r", " ", "h", "i", "g", "h", "e", "r">>

\* the findings of the loop over Object.entries(allDeps)
RECURSIVE ManifestFindings(_)
ManifestFindings(allDeps) ==
    IF Len(allDeps) = 0 THEN <<>>
    ELSE LET depName == Head(allDeps).name
             versionRange == Head(allDeps).version
             knownVuln == Known(knownVulnerableDependencies, depName)
         IN  (IF /\ Len(knownVuln) > 0
                 /\ isVersionLowerThan(CleanVersion(versionRange),
                                       knownVuln[1].vulnerableBelow)
              THEN <<[type |-> "Vulnerable Dependency",
                      severity |-> knownVuln[1].severity,
                      name |-> depName,
                      version |-> versionRange,
                      issue |-> knownVuln[1].issue,
                      recommendation |->
                          UpdateText(depName, knownVuln[1].vulnerableBelow)]>>
              ELSE <<>>)
             \o ManifestFindings(Tail(allDeps))

NameChars == WordChars \cup {"-"}

\* line.match(/^([a-zA-Z0-9_-]+)[=><]+([0-9.]+)/)
RequirementMatch(line) ==
    LET n == RunEnd(line, 1, NameChars)
        o == RunEnd(line, n, {"=", ">", "<"})
        v == RunEnd(line, o, DigitChars \cup {"."})
    IN  IF n > 1 /\ o > n /\ v > o
        THEN [ok |-> TRUE, pyDep |-> SubSeq(line, 1, n - 1),
              pyVersion |-> SubSeq(line, o, v - 1)]
        ELSE NoMatch

\* the findings of the loop over the lines of requirements.txt
RECURSIVE RequirementFindings(_)
RequirementFindings(reqLines) ==
    IF Len(reqLines) = 0 THEN <<>>
    ELSE LET line == Head(reqLines)
             m == RequirementMatch(line)
             pyKnownVuln == IF m.ok THEN Known(pyKnownVulns, ToLower(m.pyDep)) ELSE <<>>
         IN  (IF /\ Trim(line) # <<>>
                 /\ ~StartsAt(line, <<"#">>, 1)
                 /\ m.ok
                 /\ Len(pyKnownVuln) > 0
                 /\ isVersionLowerThan(m.pyVersion, pyKnownVuln[1].vulnerableBelow)
              THEN <<[type |-> "Vulnerable Python Dependency",
                      severity |-> pyKnownVuln[1].severity,
                      name |-> m.pyDep,
                      version |-> m.pyVersion,
                      issue |-> pyKnownVuln[1].issue,
                      recommendation |->
                          UpdateText(m.pyDep, pyKnownVuln[1].vulnerableBelow)]>>
              ELSE <<>>)
             \o RequirementFindings(Tail(reqLines))

\* JSON.parse(text || '{}') as far as the scanner reads it: valid is FALSE when
\* it throws
EmptyObject == [valid |-> TRUE, dependencies |-> <<>>, devDependencies |-> <<>>]

ParsedManifest(content) == IF content.text = <<>> THEN EmptyObject ELSE content.json

scanDependenciesForVulnerabilities(ctx) ==
    LET packageJsonFile == FindFile(ctx, <<"p", "a", "c", "k", "a", "g", "e", ".", "j", "s", "o", "n">>)
        reqsFile == FindFile(ctx, <<"r", "e", "q", "u", "i", "r", "e", "m", "e", "n", "t", "s", ".", "t", "x", "t">>)
        fromManifest ==
            IF packageJsonFile # <<>> /\ HasContent(ctx, packageJsonFile)
            THEN LET packageJson == ParsedManifest(GetContent(ctx, packageJsonFile))
                 IN  IF ~packageJson.valid THEN <<>>
                     ELSE ManifestFindings(Spread(packageJson.dependencies,
                                                  packageJson.devDependencies))
            ELSE <<>>
        fromRequirements ==
            IF reqsFile # <<>> /\ HasContent(ctx, reqsFile)
            THEN RequirementFindings(SplitOn(GetContent(ctx, reqsFile).text, <<"\n">>, 1))
            ELSE <<>>
    IN  fromManifest \o fromRequirements

\* vulnerabilityPatterns: type, severity and number of patterns of each group
vulnerabilityPatterns ==
    <<[type |-> "SQL Injection", severity |-> "high", patterns |-> 3],
      [type |-> "XSS Vulnerability", severity |-> "high", patterns |-> 4],
      [type |-> "Hard-coded Credentials", severity |-> "critical", patterns |-> 4],
      [type |-> "Insecure Cryptography", severity |-> "medium", patterns |-> 3],
      [type |-> "Insecure Cookie", severity |-> "medium", patterns |-> 3],
      [type |-> "Insecure File Operations", severity |-> "high", patterns |-> 2],
      [type |-> "Command Injection", severity |-> "critical", patterns |-> 3],
      [type |-> "Insecure Dependency", severity |-> "low", patterns |-> 2]>>

\* every <<group, pattern>> of the table, in the order of the two loops
PatternOrder ==
    Flatten([g \in 1..Len(vulnerabilityPatterns) |->
                [p \in 1..vulnerabilityPatterns[g].patterns |-> <<g, p>>]])

sensitiveExtensions ==
    {<<".", "j", "s">>, <<".", "t", "s">>, <<".", "j", "s", "x">>, <<".", "t", "s", "x">>, <<".", "p", "y">>, <<".", "p", "h", "p">>, <<".", "r", "b">>, <<".", "j", "a", "v", "a">>}

SensitiveNameWords ==
    <<<<"a", "u", "t", "h">>, <<"l", "o", "g", "i", "n">>, <<"p", "a", "s", "s", "w", "o", "r", "d">>, <<"c", "r", "e", "d", "e", "n", "t", "i", "a", "l">>, <<"t", "o", "k", "e", "n">>, <<"s", "e", "c", "u", "r", "i", "t", "y">>,
      <<"p", "a", "y", "m", "e", "n", "t">>, <<"a", "d", "m", "i", "n">>, <<"u", "s", "e", "r">>, <<"a", "c", "c", "o", "u", "n", "t">>>>

IsPrioritized(filePath) ==
    \/ Extname(filePath) \in sensitiveExtensions
    \/ IncludesAny(ToLower(Basename(filePath)), SensitiveNameWords)

MaxSampleFiles == 20

MaxContentLength == 1000000

\* the findings pushed for one pattern match
PatternFinding(filePath, gp) ==
    [type |-> vulnerabilityPatterns[gp[1]].type,
     severity |-> vulnerabilityPatterns[gp[1]].severity,
     file |-> Basename(filePath)]

JavaScriptChecks ==
    <<[type |-> "Code Injection", severity |-> "high"],
      [type |-> "Prototype Pollution", severity |-> "medium"],
      [type |-> "ReDoS", severity |-> "medium"]>>

PythonChecks ==
    <<[type |-> "Insecure Deserialization", severity |-> "critical"],
      [type |-> "Debug Mode Enabled", severity |-> "high"],
      [type |-> "SQL Injection", severity |-> "high"]>>

\* performJavaScriptSecurityChecks / performPythonSecurityChecks: the findings
\* of the checks whose condition the content fulfils
LanguageFindings(filePath, checks, fulfilled) ==
    LET hit == SelectSeq(checks, LAMBDA c : c.type \in fulfilled)
    IN  [i \in 1..Len(hit) |->
            [type |-> hit[i].type, severity |-> hit[i].severity,
             file |-> Basename(filePath)]]

\* the body of the loop over filesToProcess for one file
FileFindings(entry) ==
    LET fileExt == Extname(entry.path)
        content == entry.content
    IN  IF content.text = <<>> \/ Len(content.text) > MaxContentLength
        THEN [patterns |-> <<>>, language |-> <<>>]
        ELSE [patterns |->
                 LET hit == SelectSeq(PatternOrder, LAMBDA gp : gp \in content.matches)
                 IN  [i \in 1..Len(hit) |-> PatternFinding(entry.path, hit[i])],
              language |->
                 IF fileExt \in {<<".", "j", "s">>, <<".", "t", "s">>, <<".", "j", "s", "x">>, <<".", "t", "s", "x">>}
                 THEN LanguageFindings(entry.path, JavaScriptChecks, content.js)
                 ELSE IF fileExt = <<".", "p", "y">>
                 THEN LanguageFindings(entry.path, PythonChecks, content.py)
                 ELSE <<>>]

IsConfigFile(filePath) ==
    LET fileName == ToLower(Basename(filePath))
    IN  \/ fileName = <<".", "e", "n", "v">>
        \/ fileName = <<".", "e", "n", "v", ".", "l", "o", "c", "a", "l">>
        \/ fileName = <<"c", "o", "n", "f", "i", "g", ".", "j", "s", "o", "n">>
        \/ fileName = <<"s", "e", "c", "r", "e", "t", "s", ".", "j", "s", "o", "n">>
        \/ Includes(fileName, <<"c", "r", "e", "d", "e", "n", "t", "i", "a", "l", "s">>)

CountSeverity(vulnerabilities, severity) ==
    Len(SelectSeq(vulnerabilities, LAMBDA v : v.severity = severity))

\* the findings of a scan in the order they are pushed, the value of
\* totalIssues after the loops, and the number of files the loop goes through
ScanTotals(ctx) ==
    LET filesToScan == ctx.fileContents
        prioritizedFiles == SelectSeq(filesToScan, LAMBDA e : IsPrioritized(e.path))
        filesToProcess == IF Len(prioritizedFiles) > 0 THEN prioritizedFiles
                          ELSE Slice(filesToScan, Min(MaxSampleFiles, Len(filesToScan)))
        perFile == [i \in 1..Len(filesToProcess) |-> FileFindings(filesToProcess[i])]
        fileFindings == Flatten([i \in 1..Len(perFile) |->
                                    perFile[i].patterns \o perFile[i].language])
        patternCount == Len(Flatten([i \in 1..Len(perFile) |-> perFile[i].patterns]))
        configFiles == SelectSeq(filesToScan, LAMBDA e : IsConfigFile(e.path))
        gitignorePath == FindFile(ctx, <<".", "g", "i", "t", "i", "g", "n", "o", "r", "e">>)
        gitignoreContent ==
            IF Len(configFiles) > 0 /\ gitignorePath # <<>> /\ HasContent(ctx, gitignorePath)
            THEN GetContent(ctx, gitignorePath).text ELSE <<>>
        exposed == SelectSeq(configFiles, LAMBDA e :
                       /\ ~Includes(gitignoreContent, Basename(e.path))
                       /\ ~Includes(gitignoreContent, <<"*", "*", "/">>))
        configFindings == [i \in 1..Len(exposed) |->
                              [type |-> "Exposed Configuration", severity |-> "high",
                               file |-> Basename(exposed[i].path)]]
    IN  [vulnerabilities |->
             scanDependenciesForVulnerabilities(ctx) \o fileFindings \o configFindings,
         totalIssues |-> patternCount + Len(configFindings),
         processed |-> Len(filesToProcess)]

BaseScore == 80

\* a scan that keeps the date of the scan in each finding
performSecurityScan_datedFindings(ctx, now) ==
    The({[score |-> 0,
          summary |-> [text |-> "No significant security issues detected in the scanned files."],
          lastScanDate |-> now,
          vulnerabilities |-> [i \in 1..Len(totals.vulnerabilities) |->
                                  <<now, totals.vulnerabilities[i]>>],
          processed |-> totals.processed]
         : totals \in {ScanTotals(ctx)}})

\* the score and the summary computed from the findings and totalIssues
performSecurityScan(ctx, now) ==
    LET totals == ScanTotals(ctx)
        totalIssues == totals.totalIssues
        criticalCount == CountSeverity(totals.vulnerabilities, "critical")
        highCount == CountSeverity(totals.vulnerabilities, "high")
        mediumCount == CountSeverity(totals.vulnerabilities, "medium")
        baseScore == BaseScore - criticalCount * 15 - highCount * 10 - mediumCount * 5
                     - (totalIssues - criticalCount - highCount - mediumCount) * 2
    IN  [score |-> Max(0, Min(100, baseScore)),
         summary |-> IF totalIssues = 0
                     THEN [text |-> "No significant security issues detected in the scanned files."]
                     ELSE [text |-> "Found potential security issues",
                           total |-> totalIssues,
                           noun |-> IF totalIssues = 1 THEN "issue" ELSE "issues",
                           critical |-> criticalCount,
                           high |-> highCount,
                           medium |-> mediumCount],
         lastScanDate |-> now,
         vulnerabilities |-> totals.vulnerabilities,
         processed |-> totals.processed]

(***************************************************************************)
(* Scanner inputs                                                          *)
(***************************************************************************)
MaxComponents == 2

MaxScanFiles == 2

MaxClock == 2

Clock == 1..MaxClock

ComponentValues == {0, 4, 17, 21, 22}

RangePrefixes == {<<>>, <<"^">>}

ManifestNames == {<<"l", "o", "d", "a", "s", "h">>, <<"l", "e", "f", "t", "-", "p", "a", "d">>}

\* a number written in decimal
RECURSIVE ToDecimal(_)
ToDecimal(n) ==
    IF n < 10 THEN <<Digits[n + 1]>>
    ELSE ToDecimal(n \div 10) \o <<Digits[(n % 10) + 1]>>

\* a declared dependency: its name, the range prefix and the numeric components
\* of its version
Dep(name, prefix, components) ==
    [name |-> name, prefix |-> prefix, components |-> components]

VersionText(dep) ==
    dep.prefix \o Join([i \in 1..Len(dep.components) |-> ToDecimal(dep.components[i])],
                       <<".">>)

ComponentLists ==
    UNION {[1..n -> ComponentValues] : n \in 1..MaxComponents}

VariedDeps ==
    {Dep(n, p, c) : n \in ManifestNames, p \in RangePrefixes, c \in ComponentLists}

SecondDeps == {<<>>, <<Dep(<<"j", "q", "u", "e", "r", "y">>, <<>>, <<3, 4, 9>>)>>}

DevDeps ==
    {<<>>,
     <<Dep(<<"l", "o", "d", "a", "s", "h">>, <<"~">>, <<4, 17, 21>>)>>,
     <<Dep(<<"l", "o", "d", "a", "s", "h">>, <<>>, <<4, 17, 15>>)>>}

ManifestShapes ==
    {[dependencies |-> <<d>> \o s, devDependencies |-> v] :
        d \in VariedDeps, s \in SecondDeps, v \in DevDeps}

\* what JSON.parse gives for the manifest written from a shape
ManifestJson(shape) ==
    LET entries(deps) == [i \in 1..Len(deps) |->
                             [name |-> deps[i].name, version |-> VersionText(deps[i])]]
    IN  [valid |-> TRUE,
         dependencies |-> entries(shape.dependencies),
         devDependencies |-> entries(shape.devDependencies)]

NotJson == [valid |-> FALSE]

ManifestContent(shape) ==
    [text |-> <<"{", " ", "}">>, json |-> ManifestJson(shape), matches |-> {}, js |-> {}, py |-> {}]

TextContent(text) ==
    [text |-> text, json |-> NotJson, matches |-> {}, js |-> {}, py |-> {}]

CodeContent(text, matches, js, py) ==
    [text |-> text, json |-> NotJson, matches |-> matches, js |-> js, py |-> py]

LodashOnly ==
    [dependencies |-> <<Dep(<<"l", "o", "d", "a", "s", "h">>, <<>>, <<4, 17, 15>>)>>, devDependencies |-> <<>>]

RequirementsText ==
    Join(<<<<"D", "j", "a", "n", "g", "o", "=", "=", "3", ".", "2", ".", "1", "2">>, <<"#", " ", "p", "i", "n", "n", "e", "d">>, <<>>, <<"f", "l", "a", "s", "k", ">", "=", "2", ".", "0", ".", "1">>, <<"r", "e", "q", "u", "e", "s", "t", "s">>>>, <<"\n">>)

\* the files a scanned workspace is composed of: path, whether its content was
\* loaded into fileContents, the content and what it declares as a manifest
ScanFileVocab ==
    {[path |-> <<"/", "p", "a", "c", "k", "a", "g", "e", ".", "j", "s", "o", "n">>, loaded |-> TRUE,
      content |-> ManifestContent(LodashOnly), shape |-> LodashOnly],
     [path |-> <<"/", "p", "a", "c", "k", "a", "g", "e", ".", "j", "s", "o", "n">>, loaded |-> TRUE,
      content |-> TextContent(<<"{", " ", "d", "e", "p", "e", "n", "d", "e", "n", "c", "i", "e", "s">>), shape |-> NothingDeclared],
     [path |-> <<"/", "p", "a", "c", "k", "a", "g", "e", ".", "j", "s", "o", "n">>, loaded |-> FALSE,
      content |-> ManifestContent(LodashOnly), shape |-> NothingDeclared],
     [path |-> <<"/", "r", "e", "q", "u", "i", "r", "e", "m", "e", "n", "t", "s", ".", "t", "x", "t">>, loaded |-> TRUE,
      content |-> TextContent(RequirementsText), shape |-> NothingDeclared],
     [path |-> <<"/", "s", "r", "c", "/", "a", "p", "p", ".", "t", "s">>, loaded |-> TRUE,
      content |-> CodeContent(<<"c", "o", "n", "s", "t", " ", "t", "o", "k", "e", "n", " ", "=", " ", "'", "a", "b", "c", "d", "e", "f", "'">>, {<<3, 1>>, <<8, 1>>},
                              {"Code Injection", "ReDoS"}, {"Debug Mode Enabled"}),
      shape |-> NothingDeclared],
     [path |-> <<"/", "s", "r", "c", "/", "a", "p", "p", ".", "t", "s">>, loaded |-> TRUE,
      content |-> CodeContent(<<>>, {}, {}, {}), shape |-> NothingDeclared],
     [path |-> <<"/", "s", "r", "c", "/", "d", "b", ".", "p", "y">>, loaded |-> TRUE,
      content |-> CodeContent(<<"p", "i", "c", "k", "l", "e", ".", "l", "o", "a", "d", "s", "(", "x", ")">>, {<<1, 3>>, <<4, 1>>},
                              {"Code Injection"}, {"Insecure Deserialization"}),
      shape |-> NothingDeclared],
     [path |-> <<"/", "d", "o", "c", "s", "/", "n", "o", "t", "e", "s", ".", "m", "d">>, loaded |-> TRUE,
      content |-> CodeContent(<<"s", "e", "e", " ", ".", ".", "/", "x">>, {<<6, 1>>}, {}, {}), shape |-> NothingDeclared],
     [path |-> <<"/", ".", "e", "n", "v">>, loaded |-> TRUE,
      content |-> TextContent(<<"K", "E", "Y", "=", "1">>), shape |-> NothingDeclared],
     [path |-> <<"/", "c", "o", "n", "f", "/", "C", "r", "e", "d", "e", "n", "t", "i", "a", "l", "s", ".", "y", "m", "l">>, loaded |-> TRUE,
      content |-> TextContent(<<"k", ":", " ", "v">>), shape |-> NothingDeclared],
     [path |-> <<"/", ".", "g", "i", "t", "i", "g", "n", "o", "r", "e">>, loaded |-> TRUE,
      content |-> TextContent(<<".", "e", "n", "v">>), shape |-> NothingDeclared],
     [path |-> <<"/", ".", "g", "i", "t", "i", "g", "n", "o", "r", "e">>, loaded |-> TRUE,
      content |-> TextContent(<<"*", "*", "/", "t", "m", "p">>), shape |-> NothingDeclared],
     [path |-> <<"/", ".", "g", "i", "t", "i", "g", "n", "o", "r", "e">>, loaded |-> FALSE,
      content |-> TextContent(<<".", "e", "n", "v">>), shape |-> NothingDeclared]}

\* sequences of at most MaxScanFiles files of the vocabulary with distinct paths
FileLists ==
    {fs \in UNION {[1..n -> ScanFileVocab] : n \in 0..MaxScanFiles} :
        \A i, j \in 1..Len(fs) : i # j => fs[i].path # fs[j].path}

\* the WorkspaceContext of a list of files
ScanContextOf(fs) ==
    LET loaded == SelectSeq(fs, LAMBDA f : f.loaded)
    IN  [EmptyContext EXCEPT
            !.files = [i \in 1..Len(fs) |-> fs[i].path],
            !.fileContents = [i \in 1..Len(loaded) |->
                                 [path |-> loaded[i].path, content |-> loaded[i].content]]]

\* what the list of files declares: the shape of its package.json, if any
DeclaredBy(fs) ==
    LET manifests == SelectSeq(fs, LAMBDA f : Basename(f.path) = <<"p", "a", "c", "k", "a", "g", "e", ".", "j", "s", "o", "n">>)
    IN  IF Len(manifests) = 0 THEN NothingDeclared ELSE manifests[1].shape

ManifestFile(shape) ==
    [path |-> <<"/", "p", "a", "c", "k", "a", "g", "e", ".", "j", "s", "o", "n">>, loaded |-> TRUE,
     content |-> ManifestContent(shape), shape |-> shape]

\* n files with the extension, each with a short text
ManyFiles(n, ext) ==
    [i \in 1..n |-> [path |-> <<"/", "m", "/", "f">> \o ToDecimal(i) \o ext, loaded |-> TRUE,
                     content |-> TextContent(<<"x", " ", "=", " ", "1">>), shape |-> NothingDeclared]]

\* as many files as the sample holds and one more, with an extension that is
\* prioritized and with one that is not
LargeFileLists ==
    {ManyFiles(n, ext) : n \in {MaxSampleFiles, MaxSampleFiles + 1}, ext \in {<<".", "t", "s">>, <<".", "m", "d">>}}

InitScan ==
    /\ MinerIdle
    /\ RouterIdle
    /\ ServicesIdle
    /\ \E fs \in FileLists \cup {<<ManifestFile(shape)>> : shape \in ManifestShapes}
                        \cup LargeFileLists :
          /\ scanContext = ScanContextOf(fs)
          /\ declared = DeclaredBy(fs)
    /\ scanResult = NoScan
    /\ scanPc = "input"

\* the security specialty's processor runs a scan of the context
PerformSecurityScan ==
    /\ \E now \in Clock : scanResult' = performSecurityScan(scanContext, now)
    /\ scanPc' = IF scanPc = "input" THEN "done" ELSE "rescanned"
    /\ UNCHANGED <<scanContext, declared>>
    /\ UNCHANGED minerVars
    /\ UNCHANGED routerVars
    /\ UNCHANGED serviceVars

NextScan == PerformSecurityScan

SpecScan == InitScan /\ [][NextScan]_vars

(***************************************************************************)
(* Relevance Scorer (CopilotIntegration.getRelevantFiles)                  *)
(*                                                                         *)
(* The context is the sequence of the entries of context.fileContents in   *)
(* insertion order.  An entry holds its path, its content, the number pad  *)
(* of blank characters that follow the content (a long file is a short     *)
(* text and many blanks) and the number of semantic relationships the      *)
(* context records for the path.                                           *)
(***************************************************************************)
\* /test|spec|_test|\btest_/i.test(file)
IsTestName(file) == IncludesAny(ToLower(file), <<<<"t", "e", "s", "t">>, <<"s", "p", "e", "c">>>>)

\* /\.(e1|e2|...)$/i.test(file)
HasExtension(file, exts) ==
    \E lower \in {ToLower(file)} :
        \E k \in 1..Len(exts) : EndsWith(lower, <<".">> \o exts[k])

\* /word\s*ch/.test(s): the word, white space if any, and the character
IncludesSpaced(s, word, ch) ==
    \E i \in 1..Len(s) :
        /\ StartsAt(s, word, i)
        /\ \E e \in {RunEnd(s, i + Len(word), SpaceChars)} : e <= Len(s) /\ s[e] = ch

MaxSmallContent == 5000

\* the first pass: 1, one more for a file that is not minified, one more for
\* a content shorter than 5000 characters
BaseImportance(entry) ==
    1 + (IF ~Includes(entry.path, <<".", "m", "i", "n", ".">>) THEN 1 ELSE 0)
      + (IF Len(entry.content) + entry.pad < MaxSmallContent THEN 1 ELSE 0)

\* the first file whose base name starts with the stem of the test file, is
\* not a test name and is not the test file; <<>> when the test file name has
\* no stem or there is no such file.  The stem is the shortest non-empty start
\* of the base name that (.test|.spec|_test|test_|.tests) and a dot follow.
findImplementationFile(testFile, allFiles) ==
    The({
        The({
            IF n > Len(testFileName) THEN <<>>
            ELSE The({IF Len(found) = 0 THEN <<>> ELSE found[1]
                      : found \in {SelectSeq(allFiles, LAMBDA file :
                                      /\ StartsAt(Basename(file), SubSeq(testFileName, 1, n), 1)
                                      /\ ~IsTestName(Basename(file))
                                      /\ file # testFile)}})
            : n \in {LeastOf({Len(testFileName) + 1} \cup
                        {j \in 1..Len(testFileName) :
                            \E marker \in {<<".", "t", "e", "s", "t">>, <<".", "s", "p", "e", "c">>, <<"_", "t", "e", "s", "t">>, <<"t", "e", "s", "t", "_">>,
                                            <<".", "t", "e", "s", "t", "s">>} :
                                StartsAt(ToLower(testFileName), marker \o <<".">>, j + 1)})}})
        : testFileName \in {Basename(testFile)}})

\* case 'code': what the second pass adds for the entry
CodeBoost(entry) ==
    (IF HasExtension(entry.path,
            <<<<"j", "s">>, <<"t", "s">>, <<"j", "s", "x">>, <<"t", "s", "x">>, <<"p", "y">>, <<"j", "a", "v", "a">>, <<"c", "p", "p">>, <<"c", "s">>,
              <<"g", "o">>, <<"r", "b">>, <<"p", "h", "p">>>>)
     THEN 3 ELSE 0)
    + entry.relationships
    - (IF IsTestName(entry.path) THEN 2 ELSE 0)

\* case 'test': 5 for a test file, 3 for every test file whose implementation
\* file the entry is, 2 for a content that calls a test function
TestBoost(entry, allFiles) ==
    (IF IsTestName(entry.path) THEN 5 ELSE 0)
    + 3 * Len(SelectSeq(allFiles, LAMBDA file :
                  IsTestName(file) /\ findImplementationFile(file, allFiles) = entry.path))
    + (IF IncludesAny(ToLower(entry.content),
                      <<<<"a", "s", "s", "e", "r", "t", "(">>, <<"e", "x", "p", "e", "c", "t", "(">>, <<"t", "e", "s", "t", "(">>, <<"d", "e", "s", "c", "r", "i", "b", "e", "(">>, <<"i", "t", "(">>>>)
       THEN 2 ELSE 0)

\* (content.match(/\/\*\*[\s\S]*?\*\//g) || []).length, counted from position from
RECURSIVE DocCommentCount(_, _)
DocCommentCount(s, from) ==
    The({
        IF p > Len(s) THEN 0
        ELSE The({IF q > Len(s) THEN 0 ELSE 1 + DocCommentCount(s, q + 2)
                  : q \in {LeastOf({Len(s) + 1} \cup
                              {j \in (p + 3)..Len(s) : StartsAt(s, <<"*", "/">>, j)})}})
        : p \in {LeastOf({Len(s) + 1} \cup
                    {j \in from..Len(s) : StartsAt(s, <<"/", "*", "*">>, j)})}})

\* case 'docs'
DocsBoost(entry) ==
    \* /\.(md|txt)$|README|CONTRIBUTING|docs\/|\.documentation|wiki\//i
    (IF \/ HasExtension(entry.path, <<<<"m", "d">>, <<"t", "x", "t">>>>)
        \/ IncludesAny(ToLower(entry.path),
                       <<<<"r", "e", "a", "d", "m", "e">>, <<"c", "o", "n", "t", "r", "i", "b", "u", "t", "i", "n", "g">>, <<"d", "o", "c", "s", "/">>, <<".", "d", "o", "c", "u", "m", "e", "n", "t", "a", "t", "i", "o", "n">>,
                         <<"w", "i", "k", "i", "/">>>>)
     THEN 5 ELSE 0)
    + Min(DocCommentCount(entry.content, 1), 3)
    + (IF \/ EndsWith(entry.path, <<"p", "a", "c", "k", "a", "g", "e", ".", "j", "s", "o", "n">>)
          \/ EndsWith(entry.path, <<"p", "y", "p", "r", "o", "j", "e", "c", "t", ".", "t", "o", "m", "l">>)
          \/ EndsWith(entry.path, <<"s", "e", "t", "u", "p", ".", "p", "y">>)
          \/ EndsWith(entry.path, <<"c", "o", "m", "p", "o", "s", "e", "r", ".", "j", "s", "o", "n">>)
       THEN 3 ELSE 0)

\* the securityPatterns of case 'security' that match the content
securityScore(content) ==
    The({
        (IF IncludesAny(c, <<<<"p", "a", "s", "s", "w", "o", "r", "d">>, <<"s", "e", "c", "r", "e", "t">>, <<"t", "o", "k", "e", "n">>, <<"a", "p", "i", "k", "e", "y">>,
                             <<"a", "p", "i", "_", "k", "e", "y">>, <<"c", "r", "e", "d", "e", "n", "t", "i", "a", "l">>>>) THEN 1 ELSE 0)
        + (IF IncludesAny(c, <<<<"a", "u", "t", "h", "e", "n", "t">>, <<"a", "u", "t", "h", "o", "r", "i", "z">>>>) THEN 1 ELSE 0)
        + (IF IncludesAny(c, <<<<"e", "n", "c", "r", "y", "p", "t">>, <<"d", "e", "c", "r", "y", "p", "t">>, <<"h", "a", "s", "h">>, <<"s", "a", "l", "t">>>>)
           THEN 1 ELSE 0)
        + (IF IncludesSpaced(c, <<"s", "q", "l">>, "=") \/ IncludesSpaced(c, <<"q", "u", "e", "r", "y">>, "(")
           THEN 1 ELSE 0)
        + (IF IncludesSpaced(c, <<"e", "x", "e", "c">>, "(") \/ IncludesSpaced(c, <<"e", "v", "a", "l">>, "(")
           THEN 1 ELSE 0)
        + (IF IncludesAny(c, <<<<".", "i", "n", "n", "e", "r", "h", "t", "m", "l">>, <<".", "o", "u", "t", "e", "r", "h", "t", "m", "l">>, <<"d", "o", "c", "u", "m", "e", "n", "t", ".", "w", "r", "i", "t", "e">>>>)
           THEN 1 ELSE 0)
        : c \in {ToLower(content)}})

\* case 'security'
SecurityBoost(entry) ==
    The({
        (IF IncludesAny(fileName,
                <<<<"a", "u", "t", "h">>, <<"l", "o", "g", "i", "n">>, <<"p", "a", "s", "s", "w", "o", "r", "d">>, <<"u", "s", "e", "r">>, <<"t", "o", "k", "e", "n">>, <<"s", "e", "c", "u", "r", "i", "t", "y">>,
                  <<"c", "r", "y", "p", "t", "o">>, <<"c", "r", "y", "p", "t">>, <<"v", "e", "r", "i", "f", "y">>, <<"p", "e", "r", "m", "i", "s", "s", "i", "o", "n">>, <<"r", "o", "l", "e">>,
                  <<"a", "c", "c", "e", "s", "s">>>>)
         THEN 4 ELSE 0)
        + securityScore(entry.content)
        + (IF IncludesAny(fileName,
                  <<<<"c", "o", "n", "f", "i", "g">>, <<"s", "e", "t", "t", "i", "n", "g", "s">>, <<".", "e", "n", "v">>, <<".", "i", "n", "i">>, <<".", "j", "s", "o", "n">>, <<".", "y", "m", "l">>,
                    <<".", "y", "a", "m", "l">>>>)
           THEN 2 ELSE 0)
        : fileName \in {ToLower(entry.path)}})

\* fileImportance after both passes, in the order of the keys
fileImportance(ctx, type) ==
    The({
        [i \in 1..Len(ctx) |->
            BaseImportance(ctx[i])
            + (CASE type = "code" -> CodeBoost(ctx[i])
                 [] type = "test" -> TestBoost(ctx[i], allFiles)
                 [] type = "docs" -> DocsBoost(ctx[i])
                 [] type = "security" -> SecurityBoost(ctx[i])
                 [] OTHER -> 0)]
        : allFiles \in {[i \in 1..Len(ctx) |-> ctx[i].path]}})

MaxRelevantFiles == 10

\* the entries in the order of the keys, unsorted
SortByImportance_keyOrder(importance) == [k \in 1..Len(importance) |-> k]

\* Array.from(fileImportance.entries()).sort((a, b) => b[1] - a[1]): the
\* indexes of the entries by descending importance, equal ones in key order
SortByImportance(importance) ==
    [k \in 1..Len(importance) |->
        CHOOSE i \in 1..Len(importance) :
            k = 1 + Cardinality({j \in 1..Len(importance) :
                        \/ importance[j] > importance[i]
                        \/ (importance[j] = importance[i] /\ j < i)})]

\* every file is returned, most important first
getRelevantFiles_noCap(ctx, type) ==
    IF Len(ctx) = 1 THEN ctx
    ELSE The({
        The({[k \in 1..Len(sortedFiles) |-> ctx[sortedFiles[k]]]
             : sortedFiles \in {SortByImportance(importance)}})
        : importance \in {fileImportance(ctx, type)}})

\* the entries of the returned Map, in insertion order
getRelevantFiles(ctx, type) ==
    IF Len(ctx) = 1 THEN ctx
    ELSE The({
        The({[k \in 1..Len(sortedFiles) |-> ctx[sortedFiles[k]]]
             : sortedFiles \in {Slice(SortByImportance(importance), MaxRelevantFiles)}})
        : importance \in {fileImportance(ctx, type)}})

(***************************************************************************)
(* Contexts handed to the Relevance Scorer                                 *)
(***************************************************************************)
MaxFillers == 10

RelEntry(path, content, pad, relationships) ==
    [path |-> path, content |-> content, pad |-> pad, relationships |-> relationships]

\* test files without an implementation file
Filler(i) == RelEntry(<<"/", "t", "/", "f">> \o ToDecimal(i) \o <<".", "t", "e", "s", "t", ".", "t", "s">>, <<"e", "x", "p", "e", "c", "t", "(", "1", ")">>, 0, 0)

\* the other files a context may hold, in the order they are inserted
RelFileVocab ==
    <<RelEntry(<<"/", "s", "r", "c", "/", "a", ".", "t", "s">>, <<"x", " ", "=", " ", "1">>, 0, 0),
      RelEntry(<<"/", "s", "r", "c", "/", "a", ".", "t", "e", "s", "t", ".", "t", "s">>, <<"e", "x", "p", "e", "c", "t", "(", "a", ")">>, 0, 0),
      RelEntry(<<"/", "l", "i", "b", "/", "b", ".", "m", "i", "n", ".", "j", "s">>, <<"e", "v", "a", "l", " ", "(", "x", ")">>, MaxSmallContent, 0),
      RelEntry(<<"/", "d", "o", "c", "s", "/", "R", "E", "A", "D", "M", "E", ".", "m", "d">>, <<"/", "*", "*", " ", "d", " ", "*", "/", " ", "/", "*", "*", " ", "e", " ", "*", "/">>, 0, 0),
      RelEntry(<<"/", "s", "r", "c", "/", "a", "u", "t", "h", ".", "t", "s">>, <<"p", "a", "s", "s", "w", "o", "r", "d", ";", " ", "s", "q", "l", " ", "=">>, 0, 2),
      RelEntry(<<"/", "p", "a", "c", "k", "a", "g", "e", ".", "j", "s", "o", "n">>, <<"{", "}">>, 0, 0)>>

\* no filler, one, or about as many as files are returned, before or after the
\* chosen files of the vocabulary
RelevanceContexts ==
    {IF fillersFirst
     THEN [i \in 1..k |-> Filler(i)] \o SelectSeq(RelFileVocab, LAMBDA e : e \in chosen)
     ELSE SelectSeq(RelFileVocab, LAMBDA e : e \in chosen) \o [i \in 1..k |-> Filler(i)]
     : k \in {0, 1, MaxFillers - 1, MaxFillers}, fillersFirst \in BOOLEAN, chosen \in SUBSET Range(RelFileVocab)}

AnalysisTypes == {"code", "test", "docs", "security", "other"}

InitRelevance ==
    /\ relContext \in RelevanceContexts
    /\ analysisType = "none"
    /\ relevantFiles = <<>>
    /\ relPc = "input"
    /\ MinerIdle
    /\ RouterIdle
    /\ ScanIdle
    /\ CacheIdle
    /\ CopilotIdle
    /\ TelemetryIdle
    /\ ShellIdle

\* generatePrompt: const relevantFiles = this.getRelevantFiles(context, analysisType)
GetRelevantFiles(type) ==
    /\ relPc = "input"
    /\ relevantFiles' = getRelevantFiles(relContext, type)
    /\ analysisType' = type
    /\ relPc' = "done"
    /\ UNCHANGED relContext
    /\ UNCHANGED coreVars
    /\ UNCHANGED <<cacheVars, copilotVars, telemetryVars, shellVars>>

NextRelevance == \E type \in AnalysisTypes : GetRelevantFiles(type)

SpecRelevance == InitRelevance /\ [][NextRelevance]_vars

(***************************************************************************)
(* MCPServer: the context cache of one workspace folder                    *)
(*                                                                         *)
(* A document is what the extractors find in it: the number of symbols the *)
(* symbol provider returns and the number of import statements             *)
(* extractImports matches.  A context is the object analyzeWorkspace       *)
(* builds; id tells the objects apart, analysisTimestamp = 0 is a context  *)
(* without a timestamp.  The maps of a context are functions from paths.   *)
(***************************************************************************)
Doc(symbols, imports) ==
    [exists |-> TRUE, readable |-> TRUE, symbols |-> symbols, imports |-> imports]

Absent == [exists |-> FALSE, readable |-> FALSE, symbols |-> 0, imports |-> 0]

\* a file findFiles returns and openTextDocument throws on
Unreadable == [exists |-> TRUE, readable |-> FALSE, symbols |-> 0, imports |-> 0]

\* the paths of the workspace folder, in the order findFiles returns them
WorkspacePaths == <<<<"/", "w", "/", "a", ".", "t", "s">>, <<"/", "w", "/", "b", ".", "t", "s">>, <<"/", "w", "/", "d", "i", "s", "t", "/", "c", ".", "j", "s">>>>

DocVocab == {Doc(1, 0), Doc(0, 1)}

\* map.set(key, value)
MapSet(map, key, value) ==
    [k \in DOMAIN map \cup {key} |-> IF k = key THEN value ELSE map[k]]

\* the exclude pattern of findFiles
IsExcluded(file) ==
    IncludesAny(file, <<<<"/", "n", "o", "d", "e", "_", "m", "o", "d", "u", "l", "e", "s", "/">>, <<"/", "d", "i", "s", "t", "/">>, <<"/", "b", "u", "i", "l", "d", "/">>, <<"/", ".", "g", "i", "t", "/">>>>)

\* the files findFiles returns
scanWorkspace(d) == SelectSeq(WorkspacePaths, LAMBDA f : d[f].exists /\ ~IsExcluded(f))

\* importPath.startsWith is called on the first import of the map; an import
\* is an object, which has no startsWith: a TypeError
ThrowsTypeError(ctx) == \E f \in DOMAIN ctx.imports : ctx.imports[f] > 0

\* the context with the relationships map, which no entry is added to: the
\* entries come from the imports, and the first import throws
buildSemanticRelationships(ctx) == ctx

\* the context built from the files on disk, before it gets a timestamp: both
\* passes catch what openTextDocument throws and go on to the next file
buildContext(d, id) ==
    The({[present |-> TRUE,
          id |-> id,
          files |-> files,
          fileContents |-> [f \in {g \in Range(files) : d[g].readable} |-> d[f]],
          symbols |-> [f \in {g \in Range(files) : d[g].readable /\ d[g].symbols > 0} |-> d[f].symbols],
          imports |-> [f \in {g \in Range(files) : d[g].readable} |-> d[f].imports],
          semanticRelationships |-> <<>>,
          analysisTimestamp |-> 0]
         : files \in {scanWorkspace(d)}})

maxAgeMinutes == 30

MsPerMinute == 1000 * 60

\* a validity check that accepts an entry of exactly the maximal age
isCacheValid_inclusive(ctx, at) ==
    IF ctx.analysisTimestamp = 0 THEN FALSE
    ELSE at - ctx.analysisTimestamp <= maxAgeMinutes * MsPerMinute

\* the age in minutes is (at - analysisTimestamp) / 60000, a quotient that is
\* less than maxAgeMinutes when the difference is less than 30 * 60000
isCacheValid(ctx, at) ==
    IF ctx.analysisTimestamp = 0 THEN FALSE
    ELSE at - ctx.analysisTimestamp < maxAgeMinutes * MsPerMinute

\* updateFileInContext up to its first await: the content of the document is
\* set in the context the cache held when the call began
updateFileInContext_content(cachedContext, file, document) ==
    [cachedContext EXCEPT !.fileContents = MapSet(@, file, document)]

\* updateFileInContext between its two awaits: the symbols are set if there
\* are any, and the imports
updateFileInContext_symbols(cachedContext, file, document) ==
    [cachedContext EXCEPT
        !.symbols = IF document.symbols > 0 THEN MapSet(@, file, document.symbols) ELSE @,
        !.imports = MapSet(@, file, document.imports)]

MaxTicks == 2

\* The model follows one analyzeWorkspace call and one updateFileInContext
\* call at a time: a second call of either begins when the first has ended.

\* an analyzeWorkspace call in flight: the step it waits for, whether the host
\* has asked for its cancellation, and the context it builds
Analysis(stage, cancelled, ctx) == [stage |-> stage, cancelled |-> cancelled, ctx |-> ctx]

\* an updateFileInContext call in flight: the step it waits for, the context
\* object it took from the cache, and the document saved
Update(stage, held, file, document) ==
    [stage |-> stage, held |-> held, file |-> file, document |-> document]

\* the least id no living context has: the cache, the analysis in flight and
\* the update in flight hold three objects at most
FreshId ==
    LeastOf({i \in 1..4 :
                /\ i # contextCache.id
                /\ \A a \in pending : i # a.ctx.id
                /\ \A u \in saving : i # u.held.id})

\* a reference to a context after the object `changed` was written to: the
\* same object shows the change, another object does not
Deref(ctx, changed) == IF ctx.present /\ ctx.id = changed.id THEN changed ELSE ctx

\* the calls in flight after the object `changed` was written to
PendingAfter(changed) == {[a EXCEPT !.ctx = Deref(@, changed)] : a \in pending}

SavingAfter(changed) == {[u EXCEPT !.held = Deref(@, changed)] : u \in saving}

\* the entry is left alone when it holds another object
contextCacheSet_ifSame(entry, ctx) ==
    IF entry.present /\ entry.id # ctx.id THEN entry ELSE ctx

\* this.contextCache.set(workspaceKey, ctx): the entry is the object, whatever
\* the entry was
contextCacheSet(entry, ctx) == ctx

\* analyzeWorkspace up to its first await: the cached context is used when it
\* is valid
AnalyzeCached ==
    /\ contextCache.present
    /\ isCacheValid(contextCache, dateNow)
    /\ mcpOutcome' = "cached"
    /\ UNCHANGED <<disk, contextCache, pending, saving, dateNow, ticks>>
    /\ UNCHANGED <<coreVars, relevanceVars, copilotVars, telemetryVars, shellVars>>

\* analyzeWorkspace without a valid cached context, cancelled before the
\* callback of withProgress runs: the callback returns null
AnalyzeCancelled ==
    /\ ~(contextCache.present /\ isCacheValid(contextCache, dateNow))
    /\ mcpOutcome' = "cancelled"
    /\ UNCHANGED <<disk, contextCache, pending, saving, dateNow, ticks>>
    /\ UNCHANGED <<coreVars, relevanceVars, copilotVars, telemetryVars, shellVars>>

\* analyzeWorkspace without a valid cached context, up to the await of
\* scanWorkspace: the token is read, and it is not cancelled
AnalyzeScan ==
    /\ ~(contextCache.present /\ isCacheValid(contextCache, dateNow))
    /\ pending = {}
    /\ pending' = pending \cup {Analysis("scan", FALSE, [NoContext EXCEPT !.id = FreshId])}
    /\ mcpOutcome' = "scanning"
    /\ UNCHANGED <<disk, contextCache, saving, dateNow, ticks>>
    /\ UNCHANGED <<coreVars, relevanceVars, copilotVars, telemetryVars, shellVars>>

\* the user cancels the progress notification of an analysis in flight
CancelAnalysis ==
    /\ \E a \in pending :
        /\ ~a.cancelled
        /\ pending' = (pending \ {a}) \cup {[a EXCEPT !.cancelled = TRUE]}
    /\ UNCHANGED <<disk, contextCache, saving, dateNow, ticks, mcpOutcome>>
    /\ UNCHANGED <<coreVars, relevanceVars, copilotVars, telemetryVars, shellVars>>

\* analyzeWorkspace from the return of scanWorkspace to the return of
\* buildContext: the token is not read; the context is cached without a
\* timestamp, or the build throws and analyzeWorkspace rethrows
AnalyzeBuild ==
    /\ \E a \in pending :
        /\ a.stage = "scan"
        /\ \E ctx \in {buildContext(disk, a.ctx.id)} :
            IF ThrowsTypeError(ctx)
            THEN /\ mcpOutcome' = "failed"
                 /\ pending' = pending \ {a}
                 /\ UNCHANGED contextCache
            ELSE /\ mcpOutcome' = "building"
                 /\ contextCache' = contextCacheSet(contextCache, buildSemanticRelationships(ctx))
                 /\ pending' = (pending \ {a}) \cup {Analysis("built", a.cancelled, contextCache')}
    /\ UNCHANGED <<disk, saving, dateNow, ticks>>
    /\ UNCHANGED <<coreVars, relevanceVars, copilotVars, telemetryVars, shellVars>>

\* analyzeWorkspace after buildContext has returned: the token is not read;
\* the context gets its timestamp, is cached again and is routed
AnalyzeStamp ==
    /\ \E a \in pending :
        /\ a.stage = "built"
        /\ \E stamped \in {[a.ctx EXCEPT !.analysisTimestamp = dateNow]} :
            /\ contextCache' = contextCacheSet(contextCache, stamped)
            /\ pending' = {[b EXCEPT !.ctx = Deref(@, stamped)] : b \in pending \ {a}}
            /\ saving' = SavingAfter(stamped)
    /\ mcpOutcome' = "rebuilt"
    /\ UNCHANGED <<disk, dateNow, ticks>>
    /\ UNCHANGED <<coreVars, relevanceVars, copilotVars, telemetryVars, shellVars>>

\* onDidSaveTextDocument: the document is written and updateFileInContext runs
\* up to its first await; without a cached context it returns, with one it
\* sets the content in that object and keeps the object
SaveDocument ==
    /\ saving = {}
    /\ \E k \in 1..Len(WorkspacePaths), document \in DocVocab :
        /\ disk' = [disk EXCEPT ![WorkspacePaths[k]] = document]
        /\ IF ~contextCache.present
           THEN UNCHANGED <<contextCache, pending, saving>>
           ELSE \E held \in {updateFileInContext_content(contextCache, WorkspacePaths[k], document)} :
                /\ contextCache' = held
                /\ pending' = PendingAfter(held)
                /\ saving' = SavingAfter(held) \cup {Update("symbols", held, WorkspacePaths[k], document)}
    /\ UNCHANGED <<dateNow, ticks, mcpOutcome>>
    /\ UNCHANGED <<coreVars, relevanceVars, copilotVars, telemetryVars, shellVars>>

\* updateFileInContext from the return of extractFileSymbols to the await of
\* findReferences: the object it keeps gets the symbols and the imports
UpdateSymbols ==
    /\ \E u \in saving :
        /\ u.stage = "symbols"
        /\ \E held \in {updateFileInContext_symbols(u.held, u.file, u.document)} :
            /\ contextCache' = Deref(contextCache, held)
            /\ pending' = PendingAfter(held)
            /\ saving' = {IF v = u THEN Update("references", held, u.file, u.document)
                          ELSE [v EXCEPT !.held = Deref(@, held)] : v \in saving}
    /\ UNCHANGED <<disk, dateNow, ticks, mcpOutcome>>
    /\ UNCHANGED <<coreVars, relevanceVars, copilotVars, telemetryVars, shellVars>>

\* updateFileInContext after findReferences has returned: the relationships
\* are built from the object it keeps, which throws if the object has an
\* import, and the object is set in the cache
UpdateStore ==
    /\ \E u \in saving :
        /\ u.stage = "references"
        /\ saving' = saving \ {u}
        /\ IF ThrowsTypeError(u.held)
           THEN mcpOutcome' = "updateFailed" /\ UNCHANGED contextCache
           ELSE /\ mcpOutcome' = "updated"
                /\ contextCache' = contextCacheSet(contextCache, buildSemanticRelationships(u.held))
    /\ UNCHANGED <<disk, pending, dateNow, ticks>>
    /\ UNCHANGED <<coreVars, relevanceVars, copilotVars, telemetryVars, shellVars>>

\* time passes: a millisecond less than the maximal age, then a millisecond,
\* in turns
Tick ==
    /\ ticks < MaxTicks
    /\ dateNow' = dateNow + (IF ticks % 2 = 0 THEN maxAgeMinutes * MsPerMinute - 1 ELSE 1)
    /\ ticks' = ticks + 1
    /\ UNCHANGED <<disk, contextCache, pending, saving, mcpOutcome>>
    /\ UNCHANGED <<coreVars, relevanceVars, copilotVars, telemetryVars, shellVars>>

InitCache ==
    /\ disk \in {[f \in Range(WorkspacePaths) |->
                    IF f = WorkspacePaths[1] THEN a ELSE IF f = WorkspacePaths[2] THEN b ELSE Absent]
                : a \in {Absent, Doc(1, 0)}, b \in {Absent, Unreadable}}
    /\ contextCache = NoContext
    /\ pending = {}
    /\ saving = {}
    /\ dateNow = 1
    /\ ticks = 0
    /\ mcpOutcome = "none"
    /\ MinerIdle
    /\ RouterIdle
    /\ ScanIdle
    /\ RelevanceIdle
    /\ CopilotIdle
    /\ TelemetryIdle
    /\ ShellIdle

NextCache ==
    \/ AnalyzeCached
    \/ AnalyzeCancelled
    \/ AnalyzeScan
    \/ CancelAnalysis
    \/ AnalyzeBuild
    \/ AnalyzeStamp
    \/ SaveDocument
    \/ UpdateSymbols
    \/ UpdateStore
    \/ Tick

SpecCache == InitCache /\ [][NextCache]_vars
\* what simulateCopilotResponse adds to the heading for the analysis type 'code'
CodeSimulation ==
    <<"#", "#", " ", "C", "o", "d", "e", " ", "Q", "u", "a", "l", "i", "t", "y", " ", "I", "m", "p",
      "r", "o", "v", "e", "m", "e", "n", "t", "s", "\n", "\n", "*", " ", "C", "o", "n", "s", "i",
      "d", "e", "r", " ", "r", "e", "f", "a", "c", "t", "o", "r", "i", "n", "g", " ", "d", "u", "p",
      "l", "i", "c", "a", "t", "e", " ", "c", "o", "d", "e", " ", "i", "n", "t", "o", " ", "s", "h",
      "a", "r", "e", "d", " ", "f", "u", "n", "c", "t", "i", "o", "n", "s", " ", "t", "o", " ", "r",
      "e", "d", "u", "c", "e", " ", "m", "a", "i", "n", "t", "e", "n", "a", "n", "c", "e", " ", "o",
      "v", "e", "r", "h", "e", "a", "d", "\n", "*", " ", "A", "d", "d", " ", "t", "y", "p", "e", " ",
      "a", "n", "n", "o", "t", "a", "t", "i", "o", "n", "s", " ", "t", "o", " ", "i", "m", "p", "r",
      "o", "v", "e", " ", "c", "o", "d", "e", " ", "c", "l", "a", "r", "i", "t", "y", " ", "a", "n",
      "d", " ", "c", "a", "t", "c", "h", " ", "t", "y", "p", "e", "-", "r", "e", "l", "a", "t", "e",
      "d", " ", "b", "u", "g", "s", " ", "e", "a", "r", "l", "y", "\n", "*", " ", "I", "m", "p", "l",
      "e", "m", "e", "n", "t", " ", "e", "r", "r", "o", "r", " ", "h", "a", "n", "d", "l", "i", "n",
      "g", " ", "f", "o", "r", " ", "e", "d", "g", "e", " ", "c", "a", "s", "e", "s", " ", "t", "o",
      " ", "i", "m", "p", "r", "o", "v", "e", " ", "a", "p", "p", "l", "i", "c", "a", "t", "i", "o",
      "n", " ", "r", "o", "b", "u", "s", "t", "n", "e", "s", "s", "\n", "*", " ", "E", "x", "t", "r",
      "a", "c", "t", " ", "c", "o", "m", "m", "o", "n", " ", "u", "t", "i", "l", "i", "t", "i", "e",
      "s", " ", "i", "n", "t", "o", " ", "s", "e", "p", "a", "r", "a", "t", "e", " ", "m", "o", "d",
      "u", "l", "e", "s", " ", "f", "o", "r", " ", "b", "e", "t", "t", "e", "r", " ", "c", "o", "d",
      "e", " ", "o", "r", "g", "a", "n", "i", "z", "a", "t", "i", "o", "n", "\n", "*", " ", "C", "o",
      "n", "s", "i", "d", "e", "r", " ", "u", "s", "i", "n", "g", " ", "d", "e", "p", "e", "n", "d",
      "e", "n", "c", "y", " ", "i", "n", "j", "e", "c", "t", "i", "o", "n", " ", "f", "o", "r", " ",
      "b", "e", "t", "t", "e", "r", " ", "t", "e", "s", "t", "a", "b", "i", "l", "i", "t", "y", " ",
      "a", "n", "d", " ", "d", "e", "c", "o", "u", "p", "l", "i", "n", "g", "\n", "\n", "#", "#",
      " ", "P", "e", "r", "f", "o", "r", "m", "a", "n", "c", "e", " ", "R", "e", "c", "o", "m", "m",
      "e", "n", "d", "a", "t", "i", "o", "n", "s", "\n", "\n", "*", " ", "C", "a", "c", "h", "e",
      " ", "e", "x", "p", "e", "n", "s", "i", "v", "e", " ", "o", "p", "e", "r", "a", "t", "i", "o",
      "n", "s", " ", "t", "o", " ", "r", "e", "d", "u", "c", "e", " ", "c", "o", "m", "p", "u", "t",
      "a", "t", "i", "o", "n", " ", "t", "i", "m", "e", "\n", "*", " ", "A", "v", "o", "i", "d", " ",
      "u", "n", "n", "e", "c", "e", "s", "s", "a", "r", "y", " ", "r", "e", "-", "r", "e", "n", "d",
      "e", "r", "s", " ", "i", "n", " ", "U", "I", " ", "c", "o", "m", "p", "o", "n", "e", "n", "t",
      "s", " ", "b", "y", " ", "u", "s", "i", "n", "g", " ", "m", "e", "m", "o", "i", "z", "a", "t",
      "i", "o", "n", "\n", "*", " ", "C", "o", "n", "s", "i", "d", "e", "r", " ", "l", "a", "z", "y",
      "-", "l", "o", "a", "d", "i", "n", "g", " ", "f", "o", "r", " ", "m", "o", "d", "u", "l", "e",
      "s", " ", "t", "h", "a", "t", " ", "a", "r", "e", "n", "'", "t", " ", "i", "m", "m", "e", "d",
      "i", "a", "t", "e", "l", "y", " ", "n", "e", "e", "d", "e", "d", "\n", "\n", "U+0060",
      "U+0060", "U+0060", "t", "y", "p", "e", "s", "c", "r", "i", "p", "t", "\n", "/", "/", " ", "E",
      "x", "a", "m", "p", "l", "e", " ", "o", "f", " ", "i", "m", "p", "r", "o", "v", "e", "d", " ",
      "e", "r", "r", "o", "r", " ", "h", "a", "n", "d", "l", "i", "n", "g", "\n", "t", "r", "y", " ",
      "{", "\n", " ", " ", "c", "o", "n", "s", "t", " ", "r", "e", "s", "u", "l", "t", " ", "=", " ",
      "a", "w", "a", "i", "t", " ", "r", "i", "s", "k", "y", "O", "p", "e", "r", "a", "t", "i", "o",
      "n", "(", ")", ";", "\n", " ", " ", "r", "e", "t", "u", "r", "n", " ", "p", "r", "o", "c", "e",
      "s", "s", "R", "e", "s", "u", "l", "t", "(", "r", "e", "s", "u", "l", "t", ")", ";", "\n", "}",
      " ", "c", "a", "t", "c", "h", " ", "(", "e", "r", "r", "o", "r", ")", " ", "{", "\n", " ", " ",
      "l", "o", "g", "g", "e", "r", ".", "e", "r", "r", "o", "r", "(", "'", "O", "p", "e", "r", "a",
      "t", "i", "o", "n", " ", "f", "a", "i", "l", "e", "d", "'", ",", " ", "e", "r", "r", "o", "r",
      ")", ";", "\n", " ", " ", "t", "h", "r", "o", "w", " ", "n", "e", "w", " ", "A", "p", "p", "E",
      "r", "r", "o", "r", "(", "'", "O", "p", "e", "r", "a", "t", "i", "o", "n", " ", "f", "a", "i",
      "l", "e", "d", "'", ",", " ", "{", " ", "c", "a", "u", "s", "e", ":", " ", "e", "r", "r", "o",
      "r", " ", "}", ")", ";", "\n", "}", "\n", "U+0060", "U+0060", "U+0060">>

\* what simulateCopilotResponse adds to the heading for the analysis type 'test'
TestSimulation ==
    <<"#", "#", " ", "T", "e", "s", "t", "i", "n", "g", " ", "I", "m", "p", "r", "o", "v", "e", "m",
      "e", "n", "t", "s", "\n", "\n", "*", " ", "I", "n", "c", "r", "e", "a", "s", "e", " ", "t",
      "e", "s", "t", " ", "c", "o", "v", "e", "r", "a", "g", "e", " ", "f", "o", "r", " ", "c", "r",
      "i", "t", "i", "c", "a", "l", " ", "c", "o", "m", "p", "o", "n", "e", "n", "t", "s", " ", "t",
      "o", " ", "e", "n", "s", "u", "r", "e", " ", "r", "e", "l", "i", "a", "b", "i", "l", "i", "t",
      "y", "\n", "*", " ", "A", "d", "d", " ", "i", "n", "t", "e", "g", "r", "a", "t", "i", "o", "n",
      " ", "t", "e", "s", "t", "s", " ", "f", "o", "r", " ", "k", "e", "y", " ", "w", "o", "r", "k",
      "f", "l", "o", "w", "s", " ", "t", "o", " ", "v", "e", "r", "i", "f", "y", " ", "e", "n", "d",
      "-", "t", "o", "-", "e", "n", "d", " ", "f", "u", "n", "c", "t", "i", "o", "n", "a", "l", "i",
      "t", "y", "\n", "*", " ", "C", "o", "n", "s", "i", "d", "e", "r", " ", "i", "m", "p", "l", "e",
      "m", "e", "n", "t", "i", "n", "g", " ", "p", "r", "o", "p", "e", "r", "t", "y", "-", "b", "a",
      "s", "e", "d", " ", "t", "e", "s", "t", "i", "n", "g", " ", "f", "o", "r", " ", "t", "h", "o",
      "r", "o", "u", "g", "h", " ", "e", "d", "g", "e", " ", "c", "a", "s", "e", " ", "c", "o", "v",
      "e", "r", "a", "g", "e", "\n", "*", " ", "A", "d", "d", " ", "m", "o", "c", "k", "s", " ", "f",
      "o", "r", " ", "e", "x", "t", "e", "r", "n", "a", "l", " ", "d", "e", "p", "e", "n", "d", "e",
      "n", "c", "i", "e", "s", " ", "t", "o", " ", "m", "a", "k", "e", " ", "t", "e", "s", "t", "s",
      " ", "f", "a", "s", "t", "e", "r", " ", "a", "n", "d", " ", "m", "o", "r", "e", " ", "d", "e",
      "t", "e", "r", "m", "i", "n", "i", "s", "t", "i", "c", "\n", "*", " ", "U", "s", "e", " ", "p",
      "a", "r", "a", "m", "e", "t", "e", "r", "i", "z", "e", "d", " ", "t", "e", "s", "t", "s", " ",
      "t", "o", " ", "c", "o", "v", "e", "r", " ", "m", "u", "l", "t", "i", "p", "l", "e", " ", "s",
      "c", "e", "n", "a", "r", "i", "o", "s", " ", "e", "f", "f", "i", "c", "i", "e", "n", "t", "l",
      "y", "\n", "\n", "#", "#", " ", "T", "e", "s", "t", " ", "S", "t", "r", "u", "c", "t", "u",
      "r", "e", " ", "R", "e", "c", "o", "m", "m", "e", "n", "d", "a", "t", "i", "o", "n", "s", "\n",
      "\n", "*", " ", "O", "r", "g", "a", "n", "i", "z", "e", " ", "t", "e", "s", "t", "s", " ", "u",
      "s", "i", "n", "g", " ", "t", "h", "e", " ", "A", "r", "r", "a", "n", "g", "e", "-", "A", "c",
      "t", "-", "A", "s", "s", "e", "r", "t", " ", "p", "a", "t", "t", "e", "r", "n", " ", "f", "o",
      "r", " ", "c", "l", "a", "r", "i", "t", "y", "\n", "*", " ", "S", "e", "p", "a", "r", "a", "t",
      "e", " ", "u", "n", "i", "t", " ", "t", "e", "s", "t", "s", " ", "f", "r", "o", "m", " ", "i",
      "n", "t", "e", "g", "r", "a", "t", "i", "o", "n", " ", "t", "e", "s", "t", "s", " ", "f", "o",
      "r", " ", "b", "e", "t", "t", "e", "r", " ", "o", "r", "g", "a", "n", "i", "z", "a", "t", "i",
      "o", "n", "\n", "U+0060", "U+0060", "U+0060", "t", "y", "p", "e", "s", "c", "r", "i", "p", "t",
      "\n", "/", "/", " ", "E", "x", "a", "m", "p", "l", "e", " ", "o", "f", " ", "a", " ", "p", "a",
      "r", "a", "m", "e", "t", "e", "r", "i", "z", "e", "d", " ", "t", "e", "s", "t", "\n", "d", "e",
      "s", "c", "r", "i", "b", "e", "(", "'", "i", "s", "V", "a", "l", "i", "d", "P", "a", "s", "s",
      "w", "o", "r", "d", "'", ",", " ", "(", ")", " ", "=", ">", " ", "{", "\n", " ", " ", "c", "o",
      "n", "s", "t", " ", "t", "e", "s", "t", "C", "a", "s", "e", "s", " ", "=", " ", "[", "\n", " ",
      " ", " ", " ", "{", " ", "p", "a", "s", "s", "w", "o", "r", "d", ":", " ", "'", "s", "h", "o",
      "r", "t", "'", ",", " ", "e", "x", "p", "e", "c", "t", "e", "d", ":", " ", "f", "a", "l", "s",
      "e", ",", " ", "r", "e", "a", "s", "o", "n", ":", " ", "'", "t", "o", "o", " ", "s", "h", "o",
      "r", "t", "'", " ", "}", ",", "\n", " ", " ", " ", " ", "{", " ", "p", "a", "s", "s", "w", "o",
      "r", "d", ":", " ", "'", "n", "o", "u", "p", "p", "e", "r", "c", "a", "s", "e", "1", "2", "3",
      "'", ",", " ", "e", "x", "p", "e", "c", "t", "e", "d", ":", " ", "f", "a", "l", "s", "e", ",",
      " ", "r", "e", "a", "s", "o", "n", ":", " ", "'", "n", "o", " ", "u", "p", "p", "e", "r", "c",
      "a", "s", "e", "'", " ", "}", ",", "\n", " ", " ", " ", " ", "{", " ", "p", "a", "s", "s", "w",
      "o", "r", "d", ":", " ", "'", "V", "a", "l", "i", "d", "1", "2", "3", "P", "a", "s", "s", "w",
      "o", "r", "d", "'", ",", " ", "e", "x", "p", "e", "c", "t", "e", "d", ":", " ", "t", "r", "u",
      "e", ",", " ", "r", "e", "a", "s", "o", "n", ":", " ", "'", "m", "e", "e", "t", "s", " ", "a",
      "l", "l", " ", "r", "e", "q", "u", "i", "r", "e", "m", "e", "n", "t", "s", "'", " ", "}", "\n",
      " ", " ", "]", ";", "\n", " ", " ", "\n", " ", " ", "t", "e", "s", "t", "C", "a", "s", "e",
      "s", ".", "f", "o", "r", "E", "a", "c", "h", "(", "(", "{", "p", "a", "s", "s", "w", "o", "r",
      "d", ",", " ", "e", "x", "p", "e", "c", "t", "e", "d", ",", " ", "r", "e", "a", "s", "o", "n",
      "}", ")", " ", "=", ">", " ", "{", "\n", " ", " ", " ", " ", "i", "t", "(", "U+0060", "r", "e",
      "t", "u", "r", "n", "s", " ", "$", "{", "e", "x", "p", "e", "c", "t", "e", "d", "}", " ", "w",
      "h", "e", "n", " ", "p", "a", "s", "s", "w", "o", "r", "d", " ", "i", "s", " ", "$", "{", "r",
      "e", "a", "s", "o", "n", "}", "U+0060", ",", " ", "(", ")", " ", "=", ">", " ", "{", "\n", " ",
      " ", " ", " ", " ", " ", "e", "x", "p", "e", "c", "t", "(", "i", "s", "V", "a", "l", "i", "d",
      "P", "a", "s", "s", "w", "o", "r", "d", "(", "p", "a", "s", "s", "w", "o", "r", "d", ")", ")",
      ".", "t", "o", "B", "e", "(", "e", "x", "p", "e", "c", "t", "e", "d", ")", ";", "\n", " ", " ",
      " ", " ", "}", ")", ";", "\n", " ", " ", "}", ")", ";", "\n", "}", ")", ";", "\n", "U+0060",
      "U+0060", "U+0060">>

\* what simulateCopilotResponse adds to the heading for the analysis type 'docs'
DocsSimulation ==
    <<"#", "#", " ", "D", "o", "c", "u", "m", "e", "n", "t", "a", "t", "i", "o", "n", " ", "I", "m",
      "p", "r", "o", "v", "e", "m", "e", "n", "t", "s", "\n", "\n", "*", " ", "A", "d", "d", " ",
      "e", "x", "a", "m", "p", "l", "e", "s", " ", "t", "o", " ", "c", "o", "m", "p", "l", "e", "x",
      " ", "f", "u", "n", "c", "t", "i", "o", "n", " ", "d", "o", "c", "u", "m", "e", "n", "t", "a",
      "t", "i", "o", "n", " ", "t", "o", " ", "c", "l", "a", "r", "i", "f", "y", " ", "u", "s", "a",
      "g", "e", "\n", "*", " ", "U", "p", "d", "a", "t", "e", " ", "R", "E", "A", "D", "M", "E", " ",
      "w", "i", "t", "h", " ", "i", "n", "s", "t", "a", "l", "l", "a", "t", "i", "o", "n", " ", "i",
      "n", "s", "t", "r", "u", "c", "t", "i", "o", "n", "s", " ", "f", "o", "r", " ", "n", "e", "w",
      " ", "c", "o", "n", "t", "r", "i", "b", "u", "t", "o", "r", "s", "\n", "*", " ", "D", "o", "c",
      "u", "m", "e", "n", "t", " ", "p", "u", "b", "l", "i", "c", " ", "A", "P", "I", " ", "e", "n",
      "d", "p", "o", "i", "n", "t", "s", " ", "t", "o", " ", "h", "e", "l", "p", " ", "c", "o", "n",
      "s", "u", "m", "e", "r", "s", " ", "o", "f", " ", "y", "o", "u", "r", " ", "A", "P", "I", "\n",
      "*", " ", "A", "d", "d", " ", "J", "S", "D", "o", "c", "/", "T", "S", "D", "o", "c", " ", "c",
      "o", "m", "m", "e", "n", "t", "s", " ", "t", "o", " ", "p", "u", "b", "l", "i", "c", " ", "m",
      "e", "t", "h", "o", "d", "s", " ", "f", "o", "r", " ", "b", "e", "t", "t", "e", "r", " ", "I",
      "D", "E", " ", "i", "n", "t", "e", "g", "r", "a", "t", "i", "o", "n", "\n", "*", " ", "C", "r",
      "e", "a", "t", "e", " ", "a", " ", "C", "O", "N", "T", "R", "I", "B", "U", "T", "I", "N", "G",
      ".", "m", "d", " ", "f", "i", "l", "e", " ", "f", "o", "r", " ", "c", "o", "n", "t", "r", "i",
      "b", "u", "t", "o", "r", "s", "\n", "\n", "#", "#", " ", "D", "o", "c", "u", "m", "e", "n",
      "t", "a", "t", "i", "o", "n", " ", "S", "t", "r", "u", "c", "t", "u", "r", "e", "\n", "\n",
      "*", " ", "U", "s", "e", " ", "c", "o", "n", "s", "i", "s", "t", "e", "n", "t", " ", "f", "o",
      "r", "m", "a", "t", "t", "i", "n", "g", " ", "f", "o", "r", " ", "a", "l", "l", " ", "d", "o",
      "c", "u", "m", "e", "n", "t", "a", "t", "i", "o", "n", " ", "f", "i", "l", "e", "s", "\n", "*",
      " ", "A", "d", "d", " ", "a", " ", "t", "a", "b", "l", "e", " ", "o", "f", " ", "c", "o", "n",
      "t", "e", "n", "t", "s", " ", "t", "o", " ", "l", "a", "r", "g", "e", "r", " ", "d", "o", "c",
      "u", "m", "e", "n", "t", "a", "t", "i", "o", "n", " ", "f", "i", "l", "e", "s", "\n", "U+0060",
      "U+0060", "U+0060", "t", "y", "p", "e", "s", "c", "r", "i", "p", "t", "\n", "/", "*", "*",
      "\n", " ", "*", " ", "P", "r", "o", "c", "e", "s", "s", "e", "s", " ", "a", " ", "c", "u", "s",
      "t", "o", "m", "e", "r", " ", "t", "r", "a", "n", "s", "a", "c", "t", "i", "o", "n", " ", "a",
      "n", "d", " ", "u", "p", "d", "a", "t", "e", "s", " ", "a", "c", "c", "o", "u", "n", "t", " ",
      "b", "a", "l", "a", "n", "c", "e", "\n", " ", "*", " ", "\n", " ", "*", " ", "@", "p", "a",
      "r", "a", "m", " ", "c", "u", "s", "t", "o", "m", "e", "r", "I", "d", " ", "-", " ", "U", "n",
      "i", "q", "u", "e", " ", "i", "d", "e", "n", "t", "i", "f", "i", "e", "r", " ", "f", "o", "r",
      " ", "t", "h", "e", " ", "c", "u", "s", "t", "o", "m", "e", "r", "\n", " ", "*", " ", "@", "p",
      "a", "r", "a", "m", " ", "a", "m", "o", "u", "n", "t", " ", "-", " ", "T", "r", "a", "n", "s",
      "a", "c", "t", "i", "o", "n", " ", "a", "m", "o", "u", "n", "t", " ", "(", "p", "o", "s", "i",
      "t", "i", "v", "e", " ", "f", "o", "r", " ", "d", "e", "p", "o", "s", "i", "t", "s", ",", " ",
      "n", "e", "g", "a", "t", "i", "v", "e", " ", "f", "o", "r", " ", "w", "i", "t", "h", "d", "r",
      "a", "w", "a", "l", "s", ")", "\n", " ", "*", " ", "@", "p", "a", "r", "a", "m", " ", "o", "p",
      "t", "i", "o", "n", "s", " ", "-", " ", "A", "d", "d", "i", "t", "i", "o", "n", "a", "l", " ",
      "t", "r", "a", "n", "s", "a", "c", "t", "i", "o", "n", " ", "o", "p", "t", "i", "o", "n", "s",
      "\n", " ", "*", " ", "@", "r", "e", "t", "u", "r", "n", "s", " ", "P", "r", "o", "m", "i", "s",
      "e", " ", "r", "e", "s", "o", "l", "v", "i", "n", "g", " ", "t", "o", " ", "t", "h", "e", " ",
      "u", "p", "d", "a", "t", "e", "d", " ", "a", "c", "c", "o", "u", "n", "t", " ", "b", "a", "l",
      "a", "n", "c", "e", "\n", " ", "*", " ", "\n", " ", "*", " ", "@", "e", "x", "a", "m", "p",
      "l", "e", "\n", " ", "*", " ", "/", "/", " ", "P", "r", "o", "c", "e", "s", "s", " ", "a", " ",
      "d", "e", "p", "o", "s", "i", "t", "\n", " ", "*", " ", "c", "o", "n", "s", "t", " ", "n", "e",
      "w", "B", "a", "l", "a", "n", "c", "e", " ", "=", " ", "a", "w", "a", "i", "t", " ", "p", "r",
      "o", "c", "e", "s", "s", "T", "r", "a", "n", "s", "a", "c", "t", "i", "o", "n", "(", "'", "c",
      "u", "s", "t", "-", "1", "2", "3", "'", ",", " ", "1", "0", "0", ".", "5", "0", ")", ";", "\n",
      " ", "*", " ", "\n", " ", "*", " ", "@", "t", "h", "r", "o", "w", "s", " ", "{", "I", "n", "s",
      "u", "f", "f", "i", "c", "i", "e", "n", "t", "F", "u", "n", "d", "s", "E", "r", "r", "o", "r",
      "}", " ", "W", "h", "e", "n", " ", "w", "i", "t", "h", "d", "r", "a", "w", "a", "l", " ", "a",
      "m", "o", "u", "n", "t", " ", "e", "x", "c", "e", "e", "d", "s", " ", "a", "v", "a", "i", "l",
      "a", "b", "l", "e", " ", "b", "a", "l", "a", "n", "c", "e", "\n", " ", "*", "/", "\n", "a",
      "s", "y", "n", "c", " ", "f", "u", "n", "c", "t", "i", "o", "n", " ", "p", "r", "o", "c", "e",
      "s", "s", "T", "r", "a", "n", "s", "a", "c", "t", "i", "o", "n", "(", "c", "u", "s", "t", "o",
      "m", "e", "r", "I", "d", ":", " ", "s", "t", "r", "i", "n", "g", ",", " ", "a", "m", "o", "u",
      "n", "t", ":", " ", "n", "u", "m", "b", "e", "r", ",", " ", "o", "p", "t", "i", "o", "n", "s",
      "?", ":", " ", "T", "r", "a", "n", "s", "a", "c", "t", "i", "o", "n", "O", "p", "t", "i", "o",
      "n", "s", ")", ":", " ", "P", "r", "o", "m", "i", "s", "e", "<", "n", "u", "m", "b", "e", "r",
      ">", " ", "{", "\n", " ", " ", "/", "/", " ", "I", "m", "p", "l", "e", "m", "e", "n", "t", "a",
      "t", "i", "o", "n", ".", ".", ".", "\n", "}", "\n", "U+0060", "U+0060", "U+0060">>

\* what simulateCopilotResponse adds to the heading for the analysis type 'security'
SecuritySimulation ==
    <<"#", "#", " ", "S", "e", "c", "u", "r", "i", "t", "y", " ", "V", "u", "l", "n", "e", "r", "a",
      "b", "i", "l", "i", "t", "i", "e", "s", "\n", "\n", "*", " ", "I", "m", "p", "l", "e", "m",
      "e", "n", "t", " ", "p", "r", "o", "p", "e", "r", " ", "i", "n", "p", "u", "t", " ", "v", "a",
      "l", "i", "d", "a", "t", "i", "o", "n", " ", "t", "o", " ", "p", "r", "e", "v", "e", "n", "t",
      " ", "i", "n", "j", "e", "c", "t", "i", "o", "n", " ", "a", "t", "t", "a", "c", "k", "s", "\n",
      "*", " ", "U", "s", "e", " ", "p", "a", "r", "a", "m", "e", "t", "e", "r", "i", "z", "e", "d",
      " ", "q", "u", "e", "r", "i", "e", "s", " ", "f", "o", "r", " ", "d", "a", "t", "a", "b", "a",
      "s", "e", " ", "a", "c", "c", "e", "s", "s", " ", "t", "o", " ", "p", "r", "e", "v", "e", "n",
      "t", " ", "S", "Q", "L", " ", "i", "n", "j", "e", "c", "t", "i", "o", "n", "\n", "*", " ", "A",
      "v", "o", "i", "d", " ", "s", "t", "o", "r", "i", "n", "g", " ", "s", "e", "n", "s", "i", "t",
      "i", "v", "e", " ", "d", "a", "t", "a", " ", "i", "n", " ", "c", "l", "i", "e", "n", "t", "-",
      "s", "i", "d", "e", " ", "c", "o", "d", "e", " ", "t", "o", " ", "p", "r", "e", "v", "e", "n",
      "t", " ", "e", "x", "p", "o", "s", "u", "r", "e", "\n", "*", " ", "U", "p", "d", "a", "t", "e",
      " ", "d", "e", "p", "e", "n", "d", "e", "n", "c", "i", "e", "s", " ", "w", "i", "t", "h", " ",
      "k", "n", "o", "w", "n", " ", "v", "u", "l", "n", "e", "r", "a", "b", "i", "l", "i", "t", "i",
      "e", "s", " ", "t", "o", " ", "m", "i", "n", "i", "m", "i", "z", "e", " ", "a", "t", "t", "a",
      "c", "k", " ", "s", "u", "r", "f", "a", "c", "e", "\n", "*", " ", "I", "m", "p", "l", "e", "m",
      "e", "n", "t", " ", "p", "r", "o", "p", "e", "r", " ", "a", "u", "t", "h", "e", "n", "t", "i",
      "c", "a", "t", "i", "o", "n", " ", "a", "n", "d", " ", "a", "u", "t", "h", "o", "r", "i", "z",
      "a", "t", "i", "o", "n", " ", "c", "h", "e", "c", "k", "s", " ", "f", "o", "r", " ", "a", "l",
      "l", " ", "r", "o", "u", "t", "e", "s", "\n", "\n", "#", "#", " ", "S", "e", "c", "u", "r",
      "i", "t", "y", " ", "B", "e", "s", "t", " ", "P", "r", "a", "c", "t", "i", "c", "e", "s", "\n",
      "\n", "*", " ", "U", "s", "e", " ", "H", "T", "T", "P", "S", " ", "f", "o", "r", " ", "a", "l",
      "l", " ", "c", "o", "n", "n", "e", "c", "t", "i", "o", "n", "s", " ", "t", "o", " ", "e", "n",
      "c", "r", "y", "p", "t", " ", "d", "a", "t", "a", " ", "i", "n", " ", "t", "r", "a", "n", "s",
      "i", "t", "\n", "*", " ", "I", "m", "p", "l", "e", "m", "e", "n", "t", " ", "r", "a", "t", "e",
      " ", "l", "i", "m", "i", "t", "i", "n", "g", " ", "t", "o", " ", "p", "r", "e", "v", "e", "n",
      "t", " ", "b", "r", "u", "t", "e", " ", "f", "o", "r", "c", "e", " ", "a", "t", "t", "a", "c",
      "k", "s", "\n", "*", " ", "S", "e", "t", " ", "s", "e", "c", "u", "r", "e", " ", "a", "n", "d",
      " ", "H", "t", "t", "p", "O", "n", "l", "y", " ", "f", "l", "a", "g", "s", " ", "o", "n", " ",
      "c", "o", "o", "k", "i", "e", "s", " ", "c", "o", "n", "t", "a", "i", "n", "i", "n", "g", " ",
      "s", "e", "n", "s", "i", "t", "i", "v", "e", " ", "i", "n", "f", "o", "r", "m", "a", "t", "i",
      "o", "n", "\n", "U+0060", "U+0060", "U+0060", "t", "y", "p", "e", "s", "c", "r", "i", "p", "t",
      "\n", "/", "/", " ", "E", "x", "a", "m", "p", "l", "e", " ", "o", "f", " ", "s", "e", "c", "u",
      "r", "e", " ", "p", "a", "r", "a", "m", "e", "t", "e", "r", " ", "h", "a", "n", "d", "l", "i",
      "n", "g", "\n", "/", "/", " ", "I", "N", "S", "E", "C", "U", "R", "E", ":", " ", "D", "i", "r",
      "e", "c", "t", " ", "s", "t", "r", "i", "n", "g", " ", "i", "n", "t", "e", "r", "p", "o", "l",
      "a", "t", "i", "o", "n", "\n", "c", "o", "n", "s", "t", " ", "q", "u", "e", "r", "y", "1", " ",
      "=", " ", "U+0060", "S", "E", "L", "E", "C", "T", " ", "*", " ", "F", "R", "O", "M", " ", "u",
      "s", "e", "r", "s", " ", "W", "H", "E", "R", "E", " ", "u", "s", "e", "r", "n", "a", "m", "e",
      " ", "=", " ", "'", "$", "{", "u", "s", "e", "r", "n", "a", "m", "e", "}", "'", "U+0060", ";",
      " ", "/", "/", " ", "V", "u", "l", "n", "e", "r", "a", "b", "l", "e", " ", "t", "o", " ", "S",
      "Q", "L", " ", "i", "n", "j", "e", "c", "t", "i", "o", "n", "\n", "\n", "/", "/", " ", "S",
      "E", "C", "U", "R", "E", ":", " ", "U", "s", "i", "n", "g", " ", "p", "a", "r", "a", "m", "e",
      "t", "e", "r", "i", "z", "e", "d", " ", "q", "u", "e", "r", "i", "e", "s", "\n", "c", "o", "n",
      "s", "t", " ", "q", "u", "e", "r", "y", "2", " ", "=", " ", "'", "S", "E", "L", "E", "C", "T",
      " ", "*", " ", "F", "R", "O", "M", " ", "u", "s", "e", "r", "s", " ", "W", "H", "E", "R", "E",
      " ", "u", "s", "e", "r", "n", "a", "m", "e", " ", "=", " ", "?", "'", ";", "\n", "d", "b", ".",
      "q", "u", "e", "r", "y", "(", "q", "u", "e", "r", "y", "2", ",", " ", "[", "u", "s", "e", "r",
      "n", "a", "m", "e", "]", ")", ";", " ", "/", "/", " ", "P", "a", "r", "a", "m", "e", "t", "e",
      "r", "s", " ", "a", "r", "e", " ", "s", "a", "f", "e", "l", "y", " ", "e", "s", "c", "a", "p",
      "e", "d", "\n", "U+0060", "U+0060", "U+0060">>

(***************************************************************************)
(* The Copilot call and its fall-back to the simulators                    *)
(*                                                                         *)
(* The host is what require, initialize and the provider do: moduleLoads   *)
(* (require('./src/copilotIntegration') succeeds), the three flags that    *)
(* initialize sets, and the provider, which throws, is missing or answers  *)
(* with a text.  A result holds threw (the call ends with an error), the   *)
(* source of the answer, content, suggestions and analysisType ("" when    *)
(* the result has no such field).                                          *)
(***************************************************************************)
Answer(source, content, suggestionList, type) ==
    [threw |-> FALSE, source |-> source, content |-> content,
     suggestions |-> suggestionList, analysisType |-> type]

Thrown == [threw |-> TRUE, source |-> "", content |-> <<>>, suggestions |-> <<>>, analysisType |-> ""]

\* the text after the heading, by analysis type; nothing for another type
SimulationBody(type) ==
    CASE type = "code" -> CodeSimulation
      [] type = "test" -> TestSimulation
      [] type = "docs" -> DocsSimulation
      [] type = "security" -> SecuritySimulation
      [] OTHER -> <<>>

\* CopilotIntegration.simulateCopilotResponse: a markdown text and the
\* suggestions extracted from it
CopilotIntegration_simulateCopilotResponse(fileCount, type) ==
    The({Answer("integrationSimulator", responseContent, extractSuggestions(responseContent), "")
         : responseContent \in {<<"#", " ", "A", "n", "a", "l", "y", "s", "i", "s", " ", "o", "f", " ">> \o ToDecimal(fileCount) \o <<" ", "f", "i", "l", "e", "s", "\n", "\n">>
                                  \o SimulationBody(type)}})

\* the chat command when the chat extension is active, else the code
\* generation provider when there is one; an error of either is thrown again,
\* and so is the lack of both
useRealCopilotApi(env, type) ==
    IF env.hasChatCommandsExtension
    THEN IF env.providerThrows THEN Thrown
         ELSE Answer("api", env.response, extractSuggestions(env.response), type)
    ELSE IF env.useLangServerCodeGen /\ env.providerThrows THEN Thrown
    ELSE IF env.useLangServerCodeGen /\ env.codegenProvider
         THEN Answer("api", env.response, extractSuggestions(env.response), type)
    ELSE Thrown

\* CopilotIntegration.processWithCopilot: the real call when the API is
\* available, the simulator when it is not or when the call throws
CopilotIntegration_processWithCopilot(env, fileCount, type) ==
    IF env.copilotApiAvailable
    THEN The({IF result.threw THEN CopilotIntegration_simulateCopilotResponse(fileCount, type)
              ELSE result
              : result \in {useRealCopilotApi(env, type)}})
    ELSE CopilotIntegration_simulateCopilotResponse(fileCount, type)

\* AIModelRouter.simulateCopilotResponse: four fixed suggestions by type
AIModelRouter_simulateCopilotResponse(fileCount, type) ==
    Answer("routerSimulator",
           <<"A", "n", "a", "l", "y", "s", "i", "s", " ", "o", "f", " ">> \o ToDecimal(fileCount) \o <<" ", "f", "i", "l", "e", "s", " ", "c", "o", "m", "p", "l", "e", "t", "e", "d", ".">>,
           CASE type = "code" ->
                  <<<<"C", "o", "n", "s", "i", "d", "e", "r", " ", "r", "e", "f", "a", "c", "t", "o", "r", "i", "n", "g", " ", "d", "u", "p", "l", "i", "c", "a", "t", "e", " ", "c", "o", "d", "e", " ", "i", "n", "t", "o", " ", "s", "h", "a", "r", "e", "d", " ", "f", "u", "n", "c", "t", "i", "o", "n", "s">>,
                    <<"A", "d", "d", " ", "t", "y", "p", "e", " ", "a", "n", "n", "o", "t", "a", "t", "i", "o", "n", "s", " ", "t", "o", " ", "i", "m", "p", "r", "o", "v", "e", " ", "c", "o", "d", "e", " ", "c", "l", "a", "r", "i", "t", "y">>,
                    <<"I", "m", "p", "l", "e", "m", "e", "n", "t", " ", "e", "r", "r", "o", "r", " ", "h", "a", "n", "d", "l", "i", "n", "g", " ", "f", "o", "r", " ", "e", "d", "g", "e", " ", "c", "a", "s", "e", "s">>,
                    <<"U", "s", "e", " ", "d", "e", "p", "e", "n", "d", "e", "n", "c", "y", " ", "i", "n", "j", "e", "c", "t", "i", "o", "n", " ", "f", "o", "r", " ", "b", "e", "t", "t", "e", "r", " ", "t", "e", "s", "t", "a", "b", "i", "l", "i", "t", "y">>>>
             [] type = "test" ->
                  <<<<"I", "n", "c", "r", "e", "a", "s", "e", " ", "t", "e", "s", "t", " ", "c", "o", "v", "e", "r", "a", "g", "e", " ", "f", "o", "r", " ", "c", "r", "i", "t", "i", "c", "a", "l", " ", "c", "o", "m", "p", "o", "n", "e", "n", "t", "s">>,
                    <<"A", "d", "d", " ", "i", "n", "t", "e", "g", "r", "a", "t", "i", "o", "n", " ", "t", "e", "s", "t", "s", " ", "f", "o", "r", " ", "k", "e", "y", " ", "w", "o", "r", "k", "f", "l", "o", "w", "s">>,
                    <<"C", "o", "n", "s", "i", "d", "e", "r", " ", "i", "m", "p", "l", "e", "m", "e", "n", "t", "i", "n", "g", " ", "p", "r", "o", "p", "e", "r", "t", "y", "-", "b", "a", "s", "e", "d", " ", "t", "e", "s", "t", "i", "n", "g">>,
                    <<"M", "o", "c", "k", " ", "e", "x", "t", "e", "r", "n", "a", "l", " ", "d", "e", "p", "e", "n", "d", "e", "n", "c", "i", "e", "s", " ", "f", "o", "r", " ", "u", "n", "i", "t", " ", "t", "e", "s", "t", "s">>>>
             [] type = "docs" ->
                  <<<<"A", "d", "d", " ", "e", "x", "a", "m", "p", "l", "e", "s", " ", "t", "o", " ", "c", "o", "m", "p", "l", "e", "x", " ", "f", "u", "n", "c", "t", "i", "o", "n", " ", "d", "o", "c", "u", "m", "e", "n", "t", "a", "t", "i", "o", "n">>,
                    <<"U", "p", "d", "a", "t", "e", " ", "R", "E", "A", "D", "M", "E", " ", "w", "i", "t", "h", " ", "i", "n", "s", "t", "a", "l", "l", "a", "t", "i", "o", "n", " ", "i", "n", "s", "t", "r", "u", "c", "t", "i", "o", "n", "s">>,
                    <<"D", "o", "c", "u", "m", "e", "n", "t", " ", "p", "u", "b", "l", "i", "c", " ", "A", "P", "I", " ", "e", "n", "d", "p", "o", "i", "n", "t", "s">>,
                    <<"C", "r", "e", "a", "t", "e", " ", "A", "P", "I", " ", "r", "e", "f", "e", "r", "e", "n", "c", "e", " ", "d", "o", "c", "u", "m", "e", "n", "t", "a", "t", "i", "o", "n">>>>
             [] type = "security" ->
                  <<<<"R", "e", "v", "i", "e", "w", " ", "a", "u", "t", "h", "e", "n", "t", "i", "c", "a", "t", "i", "o", "n", " ", "i", "m", "p", "l", "e", "m", "e", "n", "t", "a", "t", "i", "o", "n", " ", "f", "o", "r", " ", "s", "e", "c", "u", "r", "i", "t", "y", " ", "v", "u", "l", "n", "e", "r", "a", "b", "i", "l", "i", "t", "i", "e", "s">>,
                    <<"E", "n", "s", "u", "r", "e", " ", "a", "l", "l", " ", "u", "s", "e", "r", " ", "i", "n", "p", "u", "t", "s", " ", "a", "r", "e", " ", "p", "r", "o", "p", "e", "r", "l", "y", " ", "v", "a", "l", "i", "d", "a", "t", "e", "d">>,
                    <<"U", "p", "d", "a", "t", "e", " ", "d", "e", "p", "e", "n", "d", "e", "n", "c", "i", "e", "s", " ", "w", "i", "t", "h", " ", "k", "n", "o", "w", "n", " ", "s", "e", "c", "u", "r", "i", "t", "y", " ", "i", "s", "s", "u", "e", "s">>,
                    <<"I", "m", "p", "l", "e", "m", "e", "n", "t", " ", "C", "S", "R", "F", " ", "p", "r", "o", "t", "e", "c", "t", "i", "o", "n", " ", "f", "o", "r", " ", "f", "o", "r", "m", "s">>>>
             [] OTHER -> <<>>,
           "")

\* a router that lets the error of the integration through
AIModelRouter_processWithCopilot_noCatch(env, fileCount, type) ==
    IF ~env.moduleLoads THEN AIModelRouter_simulateCopilotResponse(fileCount, type)
    ELSE IF env.copilotApiAvailable THEN useRealCopilotApi(env, type)
    ELSE CopilotIntegration_simulateCopilotResponse(fileCount, type)

\* AIModelRouter.processWithCopilot: the router's simulator when the module
\* does not load or the integration throws, else what the integration returns
AIModelRouter_processWithCopilot(env, fileCount, type) ==
    IF ~env.moduleLoads THEN AIModelRouter_simulateCopilotResponse(fileCount, type)
    ELSE The({IF result.threw THEN AIModelRouter_simulateCopilotResponse(fileCount, type)
              ELSE result
              : result \in {CopilotIntegration_processWithCopilot(env, fileCount, type)}})

MaxFileCount == 1

\* what the provider answers with
ProviderResponses == {<<>>, LongSentence, <<"#", "#", " ", "F", "i", "x", "e", "s", "\n", "*", " ", "A", "d", "d", " ", "a", " ", "t", "e", "s", "t">>}

\* useLangServerCodeGen is set from the exports that make the API available;
\* what is never looked at has its initial value: the flags when the module
\* does not load, the provider when the API is not available or nothing
\* leads to it, the response when the call throws
CopilotEnvs ==
    {env \in [moduleLoads : BOOLEAN, copilotApiAvailable : BOOLEAN,
              hasChatCommandsExtension : BOOLEAN, useLangServerCodeGen : BOOLEAN,
              providerThrows : BOOLEAN, codegenProvider : BOOLEAN,
              response : ProviderResponses]
     : /\ env.useLangServerCodeGen => env.copilotApiAvailable
       /\ env.copilotApiAvailable \/ env.hasChatCommandsExtension => env.moduleLoads
       /\ env.providerThrows \/ env.codegenProvider =>
              env.copilotApiAvailable /\ (env.hasChatCommandsExtension \/ env.useLangServerCodeGen)
       /\ env.codegenProvider => ~env.hasChatCommandsExtension /\ ~env.providerThrows
       /\ env.response # <<>> =>
              /\ env.copilotApiAvailable /\ ~env.providerThrows
              /\ env.hasChatCommandsExtension \/ env.codegenProvider}

\* the four analysis types the processors of the router ask for
CopilotAnalysisTypes == {"code", "test", "docs", "security"}

InitCopilot ==
    /\ copilotEnv \in CopilotEnvs
    /\ copilotRequest \in [analysisType : CopilotAnalysisTypes, fileCount : 0..MaxFileCount]
    /\ copilotResult = <<>>
    /\ copilotPc = "input"
    /\ MinerIdle
    /\ RouterIdle
    /\ ScanIdle
    /\ RelevanceIdle
    /\ CacheIdle
    /\ TelemetryIdle
    /\ ShellIdle

\* a processor of the router asks for the analysis
ProcessWithCopilot ==
    /\ copilotPc = "input"
    /\ copilotResult' = AIModelRouter_processWithCopilot(copilotEnv, copilotRequest.fileCount,
                                                          copilotRequest.analysisType)
    /\ copilotPc' = "done"
    /\ UNCHANGED <<copilotEnv, copilotRequest>>
    /\ UNCHANGED <<coreVars, relevanceVars, cacheVars, telemetryVars, shellVars>>

NextCopilot == ProcessWithCopilot

SpecCopilot == InitCopilot /\ [][NextCopilot]_vars
(***************************************************************************)
(* TelemetryService                                                        *)
(*                                                                         *)
(* An event of the log is the name handed to trackEvent and, for an event  *)
(* of trackError, the name of the error ("" otherwise).                    *)
(***************************************************************************)
MaxEvents == 3

EventNames == {"activate", "analyze"}

ErrorNames == {"scanFailed"}

\* the constructor reads the configuration value once
TelemetryService(setting) == [constructed |-> TRUE, isEnabled |-> setting]

\* the log after trackEvent: nothing is written when isEnabled is false
trackEvent(instance, log, eventName, errorName) ==
    IF ~instance.isEnabled THEN log
    ELSE Append(log, [eventName |-> eventName, errorName |-> errorName])

\* the log after trackError: an event named 'error', written by trackEvent
trackError(instance, log, errorName) ==
    IF ~instance.isEnabled THEN log
    ELSE trackEvent(instance, log, "error", errorName)

\* TelemetryService.getInstance(), the first time
GetInstance ==
    /\ ~telemetryInstance.constructed
    /\ telemetryInstance' = TelemetryService(telemetrySetting)
    /\ UNCHANGED <<telemetrySetting, telemetryLog>>
    /\ UNCHANGED <<coreVars, relevanceVars, cacheVars, copilotVars, shellVars>>

TrackEvent ==
    /\ telemetryInstance.constructed
    /\ Len(telemetryLog) < MaxEvents
    /\ \E eventName \in EventNames :
          telemetryLog' = trackEvent(telemetryInstance, telemetryLog, eventName, "")
    /\ UNCHANGED <<telemetrySetting, telemetryInstance>>
    /\ UNCHANGED <<coreVars, relevanceVars, cacheVars, copilotVars, shellVars>>

TrackError ==
    /\ telemetryInstance.constructed
    /\ Len(telemetryLog) < MaxEvents
    /\ \E errorName \in ErrorNames :
          telemetryLog' = trackError(telemetryInstance, telemetryLog, errorName)
    /\ UNCHANGED <<telemetrySetting, telemetryInstance>>
    /\ UNCHANGED <<coreVars, relevanceVars, cacheVars, copilotVars, shellVars>>

\* updateTelemetrySettings(enabled): the field and the configuration value
UpdateTelemetrySettings ==
    /\ telemetryInstance.constructed
    /\ \E enabled \in BOOLEAN :
          /\ telemetryInstance' = [telemetryInstance EXCEPT !.isEnabled = enabled]
          /\ telemetrySetting' = enabled
    /\ UNCHANGED telemetryLog
    /\ UNCHANGED <<coreVars, relevanceVars, cacheVars, copilotVars, shellVars>>

\* the user changes aiCompanion.enableTelemetry in the settings of the editor
ChangeSetting ==
    /\ telemetrySetting' = ~telemetrySetting
    /\ UNCHANGED <<telemetryInstance, telemetryLog>>
    /\ UNCHANGED <<coreVars, relevanceVars, cacheVars, copilotVars, shellVars>>

\* the configuration value has its default, false
InitTelemetry ==
    /\ telemetrySetting = FALSE
    /\ telemetryInstance = NoInstance
    /\ telemetryLog = <<>>
    /\ MinerIdle
    /\ RouterIdle
    /\ ScanIdle
    /\ RelevanceIdle
    /\ CacheIdle
    /\ CopilotIdle
    /\ ShellIdle

NextTelemetry ==
    \/ GetInstance
    \/ TrackEvent
    \/ TrackError
    \/ UpdateTelemetrySettings
    \/ ChangeSetting

SpecTelemetry == InitTelemetry /\ [][NextTelemetry]_vars
(***************************************************************************)
(* CopilotIntegration.buildPromptForContext                                *)
(*                                                                         *)
(* The prompt is the sequence of the parts appended to it, each with the   *)
(* number of characters it adds; a text of the context is its length, as   *)
(* the function reads nothing of a file name or a content but its length.  *)
(* The files are the entries getRelevantFiles has returned, in order.      *)
(***************************************************************************)
MaxFileSections == 5

PromptSoftCap == 5000

MaxFileContent == 1000

Part(kind, length) ==
    [kind |-> kind, length |-> length, file |-> 0, content |-> 0, truncated |-> FALSE]

\* the template a known analysis type begins the prompt with
RolePromptLength(type) ==
    CASE type = "code" -> 452
      [] type = "test" -> 649
      [] type = "docs" -> 674
      [] type = "security" -> 699
      [] OTHER -> 0

\* the instructions a known analysis type ends the prompt with
InstructionsLength(type) ==
    CASE type = "code" -> 183
      [] type = "test" -> 146
      [] type = "docs" -> 122
      [] type = "security" -> 167
      [] OTHER -> 0

RECURSIVE SumLengths(_)
SumLengths(parts) ==
    IF Len(parts) = 0 THEN 0 ELSE Head(parts).length + SumLengths(Tail(parts))

\* prompt.length
PromptLength(parts) == SumLengths(parts)

\* "\n\nFile: " filename "\n" truncatedContent
FilePart(k, entry) ==
    [kind |-> "file",
     length |-> 8 + entry.filename + 1
                + (IF entry.content > MaxFileContent
                   THEN MaxFileContent + Len(<<".", ".", ".", "(", "t", "r", "u", "n", "c", "a", "t", "e", "d", ")">>) ELSE entry.content),
     file |-> k,
     content |-> IF entry.content > MaxFileContent THEN MaxFileContent ELSE entry.content,
     truncated |-> entry.content > MaxFileContent]

OmittedMarker == Part("omitted", Len(<<"(", "A", "d", "d", "i", "t", "i", "o", "n", "a", "l", " ", "f", "i", "l", "e", "s", " ", "o", "m", "i", "t", "t", "e", "d", " ", "d", "u", "e", " ", "t", "o", " ", "s", "i", "z", "e", " ", "c", "o", "n", "s", "t", "r", "a", "i", "n", "t", "s", ")">>) + 2)

\* the loop goes on after the marker
RECURSIVE FileSections_noBreak(_, _, _, _)
FileSections_noBreak(relevant, k, parts, fileCount) ==
    IF k > Len(relevant) THEN parts
    ELSE IF fileCount >= MaxFileSections \/ PromptLength(parts) > PromptSoftCap
    THEN FileSections_noBreak(relevant, k + 1, Append(parts, OmittedMarker), fileCount)
    ELSE FileSections_noBreak(relevant, k + 1, Append(parts, FilePart(k, relevant[k])), fileCount + 1)

\* the loop over the relevant files, from the k-th on
RECURSIVE FileSections(_, _, _, _)
FileSections(relevant, k, parts, fileCount) ==
    IF k > Len(relevant) THEN parts
    ELSE IF fileCount >= MaxFileSections \/ PromptLength(parts) > PromptSoftCap
    THEN Append(parts, OmittedMarker)
    ELSE FileSections(relevant, k + 1, Append(parts, FilePart(k, relevant[k])), fileCount + 1)

buildPromptForContext(ctx, type) ==
    The({
        The({
            The({IF InstructionsLength(type) > 0
                 THEN Append(body, Part("instructions", InstructionsLength(type)))
                 ELSE body
                 : body \in {
                    IF ctx.selectionMetadata.present
                    THEN Append(head, Part("selectedText",
                                    Len(<<"S", "e", "l", "e", "c", "t", "e", "d", " ", "c", "o", "d", "e", ":">>) + 3 + ctx.selectionMetadata.selectedText))
                         \o (IF ctx.selectionMetadata.surroundingText > 0
                             THEN <<Part("surroundingText",
                                      Len(<<"S", "u", "r", "r", "o", "u", "n", "d", "i", "n", "g", " ", "c", "o", "n", "t", "e", "x", "t", ":">>) + 3
                                      + ctx.selectionMetadata.surroundingText)>>
                             ELSE <<>>)
                    ELSE FileSections(ctx.relevantFiles, 1, head, 0)}})
            : head \in {
                IF ctx.projectType > 0
                THEN Append(role, Part("projectType", Len(<<"P", "r", "o", "j", "e", "c", "t", " ", "t", "y", "p", "e", ":", " ">>) + 1 + ctx.projectType))
                ELSE role}})
        : role \in {<<Part("role", RolePromptLength(type))>>}})

(***************************************************************************)
(* Contexts handed to buildPromptForContext                                *)
(***************************************************************************)
MaxPromptFiles == 6

\* a file of the result of getRelevantFiles: the lengths of its name and of
\* its content
PromptFile(filename, content) == [filename |-> filename, content |-> content]

PromptFileVocab ==
    {PromptFile(20, MaxFileContent), PromptFile(20, MaxFileContent + 1),
     PromptFile(300, MaxFileContent + 1)}

NoSelectionMetadata == [present |-> FALSE, selectedText |-> 0, surroundingText |-> 0]

SelectionMetadatas ==
    [present : {TRUE}, selectedText : {12}, surroundingText : {0, 40}]

PromptContexts ==
    UNION {[projectType : {0, Len(<<"t", "y", "p", "e", "s", "c", "r", "i", "p", "t">>)},
            selectionMetadata : {NoSelectionMetadata},
            relevantFiles : [1..n -> PromptFileVocab]] : n \in 0..MaxPromptFiles}
    \cup [projectType : {0, Len(<<"t", "y", "p", "e", "s", "c", "r", "i", "p", "t">>)},
          selectionMetadata : SelectionMetadatas,
          relevantFiles : [1..1 -> PromptFileVocab]]

InitPrompt ==
    /\ promptContext \in PromptContexts
    /\ promptType = "none"
    /\ prompt = <<>>
    /\ promptPc = "input"
    /\ BackIdle
    /\ CommandIdle
    /\ PluginIdle

\* useRealCopilotApi: const prompt = this.buildPromptForContext(context, analysisType)
BuildPromptForContext(type) ==
    /\ promptPc = "input"
    /\ prompt' = buildPromptForContext(promptContext, type)
    /\ promptType' = type
    /\ promptPc' = "done"
    /\ UNCHANGED promptContext
    /\ UNCHANGED <<backVars, commandVars, pluginVars>>

NextPrompt == \E type \in AnalysisTypes : BuildPromptForContext(type)

SpecPrompt == InitPrompt /\ [][NextPrompt]_vars
(***************************************************************************)
(* The analysis commands of activate and the stored last result            *)
(*                                                                         *)
(* A command is one action: the call of the MCPServer method, what it      *)
(* returns or throws, the assignment of lastAnalysisResult and the webview.*)
(* analysisLog keeps what each command met, so that the claims can speak   *)
(* of the analyses run so far; mcp.analyzeSymbol has the body of           *)
(* mcp.analyzeSelection.                                                   *)
(***************************************************************************)
MaxAnalyses == 3

\* the callback of withProgress in analyzeWorkspace returns null
Null == [kind |-> "null", id |-> 0]

\* the envelope the router returns for the n-th command
Result(n) == [kind |-> "result", id |-> n]

\* if (lastAnalysisResult)
Truthy(value) == value.kind = "result"

Logged(command, outcome) ==
    Append(analysisLog, [command |-> command, outcome |-> outcome, id |-> Len(analysisLog) + 1])

\* what a command does with the value the MCPServer method returned: the
\* value is stored, and getWebviewContent reads result.summary, which throws
\* for null; the error is caught and shown
StoreAndShow(value) ==
    /\ lastAnalysisResult' = value
    /\ UNCHANGED lastShown

\* mcp.analyzeWorkspace: no workspace folder; analyzeWorkspace returns the
\* envelope, returns null because the host has cancelled, or throws
AnalyzeWorkspaceCommand ==
    /\ Len(analysisLog) < MaxAnalyses
    /\ \E outcome \in {"noFolder", "result", "cancelled", "failed"} :
        /\ analysisLog' = Logged("mcp.analyzeWorkspace", outcome)
        /\ CASE outcome = "result" -> StoreAndShow(Result(Len(analysisLog')))
             [] outcome = "cancelled" -> StoreAndShow(Null)
             [] OTHER -> UNCHANGED <<lastAnalysisResult, lastShown>>
    /\ UNCHANGED <<backVars, promptVars, pluginVars>>

\* mcp.analyzeFile: no active editor; analyzeFile returns the envelope, or
\* throws
AnalyzeFileCommand ==
    /\ Len(analysisLog) < MaxAnalyses
    /\ \E outcome \in {"noEditor", "result", "failed"} :
        /\ analysisLog' = Logged("mcp.analyzeFile", outcome)
        /\ CASE outcome = "result" -> StoreAndShow(Result(Len(analysisLog')))
             [] OTHER -> UNCHANGED <<lastAnalysisResult, lastShown>>
    /\ UNCHANGED <<backVars, promptVars, pluginVars>>

\* mcp.analyzeSelection: nothing selected; the model picker is dismissed;
\* analyzeSelection returns the envelope, or throws
AnalyzeSelectionCommand ==
    /\ Len(analysisLog) < MaxAnalyses
    /\ \E outcome \in {"noSelection", "dismissed", "result", "failed"} :
        /\ analysisLog' = Logged("mcp.analyzeSelection", outcome)
        /\ CASE outcome = "result" -> StoreAndShow(Result(Len(analysisLog')))
             [] OTHER -> UNCHANGED <<lastAnalysisResult, lastShown>>
    /\ UNCHANGED <<backVars, promptVars, pluginVars>>

\* mcp.showLastAnalysis
ShowLastAnalysisCommand ==
    /\ lastShown' = IF Truthy(lastAnalysisResult) THEN "webview" ELSE "noPrevious"
    /\ UNCHANGED <<lastAnalysisResult, analysisLog>>
    /\ UNCHANGED <<backVars, promptVars, pluginVars>>

InitCommands ==
    /\ lastAnalysisResult = Undefined
    /\ analysisLog = <<>>
    /\ lastShown = "none"
    /\ BackIdle
    /\ PromptIdle
    /\ PluginIdle

NextCommands ==
    \/ AnalyzeWorkspaceCommand
    \/ AnalyzeFileCommand
    \/ AnalyzeSelectionCommand
    \/ ShowLastAnalysisCommand

SpecCommands == InitCommands /\ [][NextCommands]_vars
(***************************************************************************)
(* PluginManager: the registry of the plugins                              *)
(*                                                                         *)
(* A plugin is its name and an id that tells the objects apart; the Map is *)
(* the sequence of its values in insertion order, keyed by their names.    *)
(* registerLog keeps the plugins handed to registerPlugin, so that the     *)
(* claims can speak of the first registration of a name.                   *)
(***************************************************************************)
MaxRegistrations == 3

PluginNames == {"eslint", "pylint", "gofmt"}

Plugin(name, id) == [name |-> name, id |-> id]

\* this.plugins.get(name) is undefined
NoPlugin == Plugin("", 0)

\* this.plugins.has(name)
HasPlugin(map, name) == \E k \in 1..Len(map) : map[k].name = name

\* the Map after set(plugin.name, plugin), whether or not the name is a key
registerPlugin_overwrite(map, plugin) ==
    IF HasPlugin(map, plugin.name)
    THEN [k \in 1..Len(map) |-> IF map[k].name = plugin.name THEN plugin ELSE map[k]]
    ELSE Append(map, plugin)

\* the Map after registerPlugin(plugin): a name that is a key is warned about
\* and nothing is set
registerPlugin(map, plugin) ==
    IF HasPlugin(map, plugin.name) THEN map ELSE Append(map, plugin)

getPlugin(map, name) ==
    IF HasPlugin(map, name)
    THEN map[The({k \in 1..Len(map) : map[k].name = name})]
    ELSE NoPlugin

RegisterPlugin(name) ==
    /\ Len(registerLog) < MaxRegistrations
    /\ \E plugin \in {Plugin(name, Len(registerLog) + 1)} :
        /\ plugins' = registerPlugin(plugins, plugin)
        /\ registerLog' = Append(registerLog, plugin)
    /\ UNCHANGED gotPlugin
    /\ UNCHANGED <<backVars, promptVars, commandVars>>

GetPlugin(name) ==
    /\ gotPlugin' = [name |-> name, plugin |-> getPlugin(plugins, name)]
    /\ UNCHANGED <<plugins, registerLog>>
    /\ UNCHANGED <<backVars, promptVars, commandVars>>

InitPlugins ==
    /\ plugins = <<>>
    /\ registerLog = <<>>
    /\ gotPlugin = <<>>
    /\ BackIdle
    /\ PromptIdle
    /\ CommandIdle

NextPlugins ==
    \/ \E name \in PluginNames : RegisterPlugin(name)
    \/ \E name \in PluginNames : GetPlugin(name)

SpecPlugins == InitPlugins /\ [][NextPlugins]_vars
(***************************************************************************)
(* Claims about the Response Miner, checked under SpecMiner                *)
(***************************************************************************)
NoSectionItems == Len(SectionGroups(responseText)) = 0

GroupCounts ==
    [i \in 1..Len(suggestions) |->
        [category |-> suggestions[i].category, count |-> Len(suggestions[i].items)]]

IsListCategory(c) == \E k \in 1..Len(CategoryOrder) : CategoryOrder[k] = c

\* C1: for every non-empty response string, extractSuggestions returns at
\* least one SuggestionGroup.
C1_NeverEmptyForNonEmptyInput ==
    (minerPc = "done" /\ Len(responseText) > 0) => Len(suggestions) > 0

\* C2 as claimed: when no markdown section yields a list item and the response
\* holds a fenced code block, the result is exactly one group, "Code Examples",
\* with one item per code block, also when the response holds list items.
C2_OnlyCodeExamples ==
    (minerPc = "done" /\ NoSectionItems /\ Len(extractCodeBlocks(responseText)) > 0)
    => /\ Len(suggestions) = 1
       /\ suggestions[1].category = CodeExamples
       /\ Len(suggestions[1].items) = Len(extractCodeBlocks(responseText))

\* C2 as amended: when no markdown section yields a list item and the response
\* holds a fenced code block, the first group is "Code Examples", with one item
\* per code block in document order up to five, each carrying its block; it is
\* followed by the keyword groups of the bullet and numbered items of the
\* response exactly when there are such items; no sentence ("Suggestions") or
\* chunk ("Analysis") group is added.
C2_CodeExamplesThenLists ==
    (minerPc = "done" /\ NoSectionItems /\ Len(extractCodeBlocks(responseText)) > 0)
    => LET blocks == extractCodeBlocks(responseText)
       IN  /\ Len(suggestions) >= 1
           /\ suggestions[1].category = CodeExamples
           /\ Len(suggestions[1].items) = Min(MaxItemsPerGroup, Len(blocks))
           /\ \A i \in 1..Len(suggestions[1].items) :
                 suggestions[1].items[i].code = blocks[i]
           /\ (Len(suggestions) > 1) <=> (Len(extractListItems(responseText)) > 0)
           /\ \A g \in 2..Len(suggestions) :
                 /\ IsListCategory(suggestions[g].category)
                 /\ \A i \in 1..Len(suggestions[g].items) :
                       suggestions[g].items[i].code = <<>>

\* a response with code blocks and a list item has been mined, and one with
\* more than five code blocks
C2_Witness ==
    /\ minerPc = "done"
    /\ docShape.kind = "blocks"
    /\ docShape.withList
    /\ docShape.n > MaxItemsPerGroup
    /\ Len(suggestions) = 2
    /\ Len(suggestions[1].items) = MaxItemsPerGroup

\* the groups a sectioned response is claimed to give: one per section that
\* has bullets, named by its heading, with as many items as bullets
ExpectedSectionGroups(shape) ==
    LET all == [i \in 1..Len(shape.sections) |->
                   [category |-> SectionTitles[shape.sections[i].title],
                    count |-> shape.sections[i].k]]
    IN  SelectSeq(all, LAMBDA g : g.count >= 1)

\* C3: for a markdown response whose heading sections hold k >= 1 bullets each
\* or are empty, extractSuggestions returns exactly one group per section with
\* bullets, in document order, named by the heading text, with k items; a
\* heading with an empty body contributes no group.
C3_OneGroupPerSection ==
    (/\ minerPc = "done"
     /\ docShape.kind = "sections"
     /\ Len(ExpectedSectionGroups(docShape)) > 0)
    => GroupCounts = ExpectedSectionGroups(docShape)


(***************************************************************************)
(* Claims about the router, checked under SpecRouter and SpecSelection     *)
(***************************************************************************)
Routed == routerPc = "done" /\ requestedType = "auto"

C5_EnvelopeNamesOneSpecialty ==
    routerPc = "done"
    => /\ IsRegistered(envelope.modelType)
       /\ envelope.modelUsed = ModelName(envelope.modelType)
       /\ envelope.analysisType = ModelAnalysisType(envelope.modelType)
       /\ envelope.confidenceScore = ToFixed2(Confidence(envelope.modelType, context))

\* C6: whenever selectionMetadata.fileName contains "test", routeRequest
\* selects the testing specialty, whatever the rest of the context is.
C6_TestFileNameSelectsTesting ==
    (/\ Routed
     /\ context.selectionMetadata # NoSelection
     /\ Includes(context.selectionMetadata.fileName, <<"t", "e", "s", "t">>))
    => /\ envelope.modelType = "testing"
       /\ envelope.modelUsed = ModelName("testing")
       /\ envelope.analysisType = ModelAnalysisType("testing")

\* a selection in a test file whose language and text match the documentation
\* rule and whose text is a doc comment has been routed to testing
C6_Witness ==
    /\ Routed
    /\ context.selectionMetadata # NoSelection
    /\ Includes(context.selectionMetadata.fileName, <<"t", "e", "s", "t">>)
    /\ context.selectionMetadata.language = "markdown"
    /\ Includes(context.selectionMetadata.selectedText, <<"/", "*", "*">>)
    /\ context.dependencies # {}
    /\ envelope.modelType = "testing"

ConfidenceInRange ==
    \A k \in 1..Len(ModelOrder) :
        /\ Confidence(ModelOrder[k], context) >= 0
        /\ Confidence(ModelOrder[k], context) <= 95

ConfidenceNotLowered ==
    \A k \in 1..Len(ModelOrder) :
        Confidence(ModelOrder[k], context') >= Confidence(ModelOrder[k], context)

\* C8: each confidence function returns a value in [0, 0.95], and adding a
\* file, a language count, symbols, imports or a dependency to the context
\* never lowers it.
C8_ConfidenceBoundedMonotonic ==
    /\ []ConfidenceInRange
    /\ [][ConfidenceNotLowered]_vars

\* a context in which the code and security specialties both reach 0.95
C8_Witness ==
    /\ Confidence("code", context) = 95
    /\ Confidence("security", context) = 95
    /\ Confidence("testing", context) = 90

(***************************************************************************)
(* Security Scanner: claims                                                *)
(***************************************************************************)
\* the thresholds of the known-vulnerable table as numbers
ThresholdOf(name) ==
    IF name = <<"l", "o", "d", "a", "s", "h">> THEN <<4, 17, 21>>
    ELSE IF name = <<"j", "q", "u", "e", "r", "y">> THEN <<3, 5, 0>>
    ELSE IF name = <<"a", "x", "i", "o", "s">> THEN <<0, 21, 1>>
    ELSE IF name = <<"e", "x", "p", "r", "e", "s", "s">> THEN <<4, 17, 3>>
    ELSE IF name = <<"r", "e", "a", "c", "t">> THEN <<16, 3, 0>>
    ELSE IF name = <<"n", "o", "d", "e", "-", "f", "e", "t", "c", "h">> THEN <<2, 6, 7>>
    ELSE <<1, 2, 6>>

\* component i of a version, a missing component counting as 0
ComponentAt(v, i) == IF i <= Len(v) THEN v[i] ELSE 0

\* the first differing component decides; equal versions are not lower
LowerComponentWise(a, b) ==
    \E i \in 1..Max(Len(a), Len(b)) :
        /\ ComponentAt(a, i) < ComponentAt(b, i)
        /\ \A j \in 1..(i - 1) : ComponentAt(a, j) = ComponentAt(b, j)

\* the declaration of a name the manifest has: the one of devDependencies if
\* there is one, else the one of dependencies
DeclaredNames ==
    {declared.dependencies[i].name : i \in 1..Len(declared.dependencies)}
    \cup {declared.devDependencies[i].name : i \in 1..Len(declared.devDependencies)}

DeclarationOf(name) ==
    LET dev == SelectSeq(declared.devDependencies, LAMBDA d : d.name = name)
        dep == SelectSeq(declared.dependencies, LAMBDA d : d.name = name)
    IN  IF Len(dev) > 0 THEN dev[1] ELSE dep[1]

DependencyFindings(name) ==
    SelectSeq(scanResult.vulnerabilities,
              LAMBDA v : v.type = "Vulnerable Dependency" /\ v.name = name)

\* C9: after a scan, every dependency the manifest declares that is in the
\* known-vulnerable table has a "Vulnerable Dependency" finding naming it,
\* whose recommendation cites the threshold version, exactly when its declared
\* version is lower than the threshold component by component (a missing
\* component counts as 0, the first differing component decides, equal
\* versions are not lower); otherwise it has no such finding
C9_VulnerableIffLowerThanThreshold ==
    scanPc # "input" =>
        \A k \in Range(knownVulnerableDependencies) :
            k.name \in DeclaredNames =>
                LET found == DependencyFindings(k.name)
                IN  IF LowerComponentWise(DeclarationOf(k.name).components,
                                          ThresholdOf(k.name))
                    THEN /\ Len(found) = 1
                         /\ found[1].severity = k.severity
                         /\ Includes(found[1].recommendation,
                                     Join([i \in 1..3 |->
                                              ToDecimal(ThresholdOf(k.name)[i])], <<".">>))
                    ELSE Len(found) = 0

\* a manifest declaring lodash ^4.17, a version with a missing third
\* component, was scanned and lodash is reported
C9_Witness ==
    /\ scanPc = "done"
    /\ declared.dependencies = <<Dep(<<"l", "o", "d", "a", "s", "h">>, <<"^">>, <<4, 17>>)>>
    /\ declared.devDependencies = <<>>
    /\ Len(DependencyFindings(<<"l", "o", "d", "a", "s", "h">>)) = 1
    /\ DependencyFindings(<<"l", "o", "d", "a", "s", "h">>)[1].version = <<"^", "4", ".", "1", "7">>

ClaimedScore(vulnerabilities) ==
    LET critical == CountSeverity(vulnerabilities, "critical")
        high == CountSeverity(vulnerabilities, "high")
        medium == CountSeverity(vulnerabilities, "medium")
        remaining == Len(vulnerabilities) - critical - high - medium
    IN  Max(0, Min(100, 80 - 15 * critical - 10 * high - 5 * medium - 2 * remaining))

\* C10: the score of a scan is 80 minus 15 per critical, 10 per high, 5 per
\* medium and 2 per remaining finding, clamped to 0..100, the four counts
\* taken over all the findings of the returned list
C10_ScoreCountsAllFindings ==
    scanPc # "input" => scanResult.score = ClaimedScore(scanResult.vulnerabilities)

NoIssuesSummary ==
    [text |-> "No significant security issues detected in the scanned files."]

\* C11: the summary of a scan is the "no issues" sentence exactly when the
\* returned list of findings is empty; otherwise it reports a total equal to
\* the length of that list and the numbers of its critical, high and medium
\* findings
C11_SummaryCountsAllFindings ==
    scanPc # "input" =>
        IF Len(scanResult.vulnerabilities) = 0
        THEN scanResult.summary = NoIssuesSummary
        ELSE /\ scanResult.summary # NoIssuesSummary
             /\ scanResult.summary.total = Len(scanResult.vulnerabilities)
             /\ scanResult.summary.critical =
                    CountSeverity(scanResult.vulnerabilities, "critical")
             /\ scanResult.summary.high =
                    CountSeverity(scanResult.vulnerabilities, "high")
             /\ scanResult.summary.medium =
                    CountSeverity(scanResult.vulnerabilities, "medium")

(***************************************************************************)
(* Relevance Scorer: claims, checked under SpecRelevance                   *)
(***************************************************************************)
\* C12: getRelevantFiles returns at most 10 entries, every returned path is a
\* key of fileContents, and every returned content is the content the context
\* holds for the path, never undefined
C12_AtMostTenKnownEntries ==
    relPc = "done" =>
        /\ Len(relevantFiles) <= 10
        /\ \A k \in 1..Len(relevantFiles) :
              \E i \in 1..Len(relContext) :
                  /\ relevantFiles[k].path = relContext[i].path
                  /\ relevantFiles[k].content = relContext[i].content

\* a context of more than ten files has been cut to ten
C12_Witness ==
    /\ relPc = "done"
    /\ Len(relContext) > 10
    /\ Len(relevantFiles) = 10

\* C13: for analysis type test, the implementation file inferred for a test
\* file of the file set is among the returned files, whatever the size of
\* the file set
C13_ImplementationFileIncluded ==
    (relPc = "done" /\ analysisType = "test") =>
        \A i \in 1..Len(relContext) :
            IsTestName(relContext[i].path) =>
                LET impl == findImplementationFile(relContext[i].path,
                                [j \in 1..Len(relContext) |-> relContext[j].path])
                IN  impl # <<>> =>
                        \E k \in 1..Len(relevantFiles) : relevantFiles[k].path = impl


\* the keys of the four maps of a context are members of its files
KeysAmongFiles(ctx) ==
    /\ DOMAIN ctx.fileContents \subseteq Range(ctx.files)
    /\ DOMAIN ctx.symbols \subseteq Range(ctx.files)
    /\ DOMAIN ctx.imports \subseteq Range(ctx.files)
    /\ DOMAIN ctx.semanticRelationships \subseteq Range(ctx.files)

\* C14: in the cached context, after any sequence of builds and of saves that
\* call updateFileInContext, the keys of fileContents, symbols, imports and
\* semanticRelationships are all members of files
C14_CachedKeysAmongFiles == contextCache.present => KeysAmongFiles(contextCache)

\* the cached context has a timestamp that is less than 30 minutes old
FreshEntry ==
    /\ contextCache.present
    /\ contextCache.analysisTimestamp # 0
    /\ dateNow - contextCache.analysisTimestamp < 30 * 60 * 1000

\* a call of analyzeWorkspace looks the cached context up
AnalyzeLookup == AnalyzeCached \/ AnalyzeCancelled \/ AnalyzeScan

\* C15: analyzeWorkspace uses the cached context only if it has a timestamp
\* less than 30 minutes old, and then leaves the cache as it is; with no
\* entry, an entry without a timestamp or an older one the call goes on to
\* build the context, and it fails only when the build itself throws, which
\* takes a scanned file with an import
C15_ReuseOnlyFreshEntry ==
    [][/\ AnalyzeLookup =>
            IF FreshEntry
            THEN mcpOutcome' = "cached" /\ contextCache' = contextCache
            ELSE mcpOutcome' \in {"cancelled", "scanning"}
       /\ AnalyzeBuild =>
            /\ mcpOutcome' \in {"building", "failed"}
            /\ mcpOutcome' = "building" =>
                    /\ contextCache'.present
                    /\ contextCache'.files = scanWorkspace(disk)
                    /\ contextCache'.analysisTimestamp = 0
            /\ mcpOutcome' = "failed" =>
                    \E k \in 1..Len(WorkspacePaths) :
                        /\ disk[WorkspacePaths[k]].exists
                        /\ ~IsExcluded(WorkspacePaths[k])
                        /\ disk[WorkspacePaths[k]].imports > 0]_vars

\* the cached context is used a millisecond before it is 30 minutes old
C15_Witness ==
    /\ mcpOutcome = "cached"
    /\ contextCache.present
    /\ dateNow - contextCache.analysisTimestamp = 30 * 60 * 1000 - 1

\* C16: whatever the module, the extensions and the provider do, the call
\* returns a content and a list of suggestions; an answer that does not come
\* from the provider comes from a simulator, and the suggestions of a
\* simulator are not empty for any of the four analysis types
C16_ProviderErrorsFallBack ==
    copilotPc = "done" =>
        /\ ~copilotResult.threw
        /\ copilotResult.source \in {"api", "integrationSimulator", "routerSimulator"}
        /\ copilotResult.source = "api" =>
               /\ copilotEnv.moduleLoads /\ copilotEnv.copilotApiAvailable
               /\ ~copilotEnv.providerThrows
        /\ copilotResult.source # "api" =>
               /\ Len(copilotResult.content) > 0
               /\ Len(copilotResult.suggestions) > 0

\* the provider throws and the simulator of the integration answers
C16_Witness ==
    /\ copilotPc = "done"
    /\ copilotEnv.moduleLoads /\ copilotEnv.copilotApiAvailable /\ copilotEnv.providerThrows
    /\ copilotEnv.hasChatCommandsExtension
    /\ copilotResult.source = "integrationSimulator"
    /\ Len(copilotResult.suggestions) = 2

\* C17: the loop of a scan goes through the contents of at most 20 files,
\* however many files the context holds
C17_AtMostTwentyFilesProcessed == scanPc # "input" => scanResult.processed <= 20

PlainProse ==
    /\ \A q \in 1..Len(responseText) : ~IsHeadingStart(responseText, q)
    /\ Len(extractListItems(responseText)) = 0
    /\ Len(extractCodeBlocks(responseText)) = 0
    /\ \E pieces \in {TrimAll(SplitSentences(responseText, 1))} :
          \E i \in 1..Len(pieces) : Len(pieces[i]) >= 30 /\ Len(pieces[i]) <= 200

\* C20: for a response of plain prose with a sentence of 30 to 200 characters,
\* extractSuggestions returns exactly one group, named "Suggestions", with one
\* to seven items, each a sentence of 30 to 200 characters
C20_ProseGivesOneSuggestionsGroup ==
    (minerPc = "done" /\ PlainProse) =>
        /\ Len(suggestions) = 1
        /\ suggestions[1].category = <<"S", "u", "g", "g", "e", "s", "t", "i", "o", "n", "s">>
        /\ Len(suggestions[1].items) \in 1..7
        /\ \A i \in 1..Len(suggestions[1].items) :
              /\ Len(suggestions[1].items[i].text) >= 30
              /\ Len(suggestions[1].items[i].text) <= 200

\* prose of eight sentences: seven are extracted and five are returned
C20_Witness ==
    /\ minerPc = "done"
    /\ PlainProse
    /\ docShape.kind = "prose"
    /\ docShape.n = MaxSentences + 1
    /\ Len(extractSentences(responseText)) = MaxSentences
    /\ Len(suggestions[1].items) = MaxItemsPerGroup

\* C18: the service starts without an instance and with the setting at its
\* default, false; an event is written only in a state where telemetry is
\* enabled, that is, where aiCompanion.enableTelemetry is true
C18_NoEventUnlessEnabled ==
    [][Len(telemetryLog') > Len(telemetryLog) => telemetrySetting]_vars

(***************************************************************************)
(* Claims C21 to C30                                                       *)
(***************************************************************************)
\* the rules of the claim, read from the metadata of the selection
TestLike(metadata) ==
    \/ Includes(metadata.fileName, <<"t", "e", "s", "t">>) \/ Includes(metadata.fileName, <<"s", "p", "e", "c">>)
    \/ /\ metadata.containingSymbol # NoSymbol
       /\ IncludesAny(metadata.containingSymbol, <<<<"t", "e", "s", "t">>, <<"T", "e", "s", "t">>>>)

DocLike(metadata) ==
    \/ metadata.language = "markdown"
    \/ EndsWith(metadata.fileName, <<".", "m", "d">>)
    \/ IncludesAny(metadata.selectedText, <<<<"/", "*", "*">>, <<"/", "/", "/">>>>)

\* the specialty that processes the request of the envelope
ProcessedBy(model) ==
    /\ envelope.modelUsed = ModelName(model)
    /\ envelope.analysisType = ModelAnalysisType(model)
    /\ envelope.results.type = ModelAnalysisType(model)

\* C21: for a selection the rules apply in order: a test-like file or symbol
\* name gives testing; else markdown, a .md name or a doc-comment marker gives
\* documentation; else the request is processed by the code specialty, with
\* or without debugging markers in the selected text
C21_SelectionRulesInOrder ==
    (Routed /\ context.selectionMetadata # NoSelection) =>
        \E metadata \in {context.selectionMetadata} :
            IF TestLike(metadata) THEN envelope.modelType = "testing" /\ ProcessedBy("testing")
            ELSE IF DocLike(metadata)
            THEN envelope.modelType = "documentation" /\ ProcessedBy("documentation")
            ELSE /\ ProcessedBy("code")
                 /\ envelope.modelType =
                        IF IncludesAny(metadata.selectedText,
                                       <<<<"c", "o", "n", "s", "o", "l", "e", ".", "l", "o", "g">>, <<"d", "e", "b", "u", "g", "g", "e", "r">>, <<"c", "a", "t", "c", "h">>,
                                         <<"e", "r", "r", "o", "r">>, <<"e", "x", "c", "e", "p", "t", "i", "o", "n">>>>)
                        THEN "debugging" ELSE "code"

\* a selection whose text has a doc-comment marker and a debugging marker, in
\* a file that is not test-like, has been routed to documentation
C21_Witness ==
    /\ Routed
    /\ context.selectionMetadata # NoSelection
    /\ ~TestLike(context.selectionMetadata)
    /\ Includes(context.selectionMetadata.selectedText, <<"c", "a", "t", "c", "h">>)
    /\ Includes(context.selectionMetadata.selectedText, <<"/", "*", "*">>)
    /\ envelope.modelType = "documentation"

\* the objects the step sets as the entry of the workspace key: the context
\* a build returns, the context an analysis stamps, the context an update
\* holds
Written ==
    {buildContext(disk, a.ctx.id) :
        a \in {b \in pending : b.stage = "scan" /\ AnalyzeBuild /\ mcpOutcome' = "building"}}
    \cup {[a.ctx EXCEPT !.analysisTimestamp = dateNow] :
        a \in {b \in pending : b.stage = "built" /\ AnalyzeStamp}}
    \cup {u.held :
        u \in {v \in saving : v.stage = "references" /\ UpdateStore /\ mcpOutcome' = "updated"}}

\* C22: when a rebuild and an update of a saved file interleave, a write of
\* the entry leaves the object of the writer in the cache, whatever the other
\* call wrote before; a step that is not a write leaves the same object in the
\* cache; the entry once set stays set; and a call fails only as it fails on
\* its own: the build when a scanned file has an import, the update when the
\* object it holds has one
C22_LastWriterWins ==
    [][/\ IF Written # {}
          THEN contextCache' \in Written
          ELSE contextCache'.id = contextCache.id
       /\ contextCache.present => contextCache'.present
       /\ (AnalyzeBuild /\ mcpOutcome' = "failed") =>
              \E f \in Range(scanWorkspace(disk)) : disk[f].imports > 0
       /\ (UpdateStore /\ mcpOutcome' = "updateFailed") =>
              \E u \in saving : \E f \in DOMAIN u.held.imports : u.held.imports[f] > 0]_vars

\* the update has set the object it held after the build had set a new one,
\* and the analysis has yet to set its object again
C22_Witness ==
    /\ mcpOutcome = "updated"
    /\ \E a \in pending : a.stage = "built" /\ a.ctx.id # contextCache.id

\* C23: an analysis whose cancellation the host has asked for after the scan
\* began starts neither the build nor the route: no step of it builds and
\* caches a context, and none stamps and routes one
C23_CancelledAnalysisStops ==
    [][(\E a \in pending : a.cancelled) => ~(AnalyzeBuild \/ AnalyzeStamp)]_vars

\* the built context holds the content and the imports of every file of the
\* scan that can be read, and the symbols of those that have any; a file that
\* cannot be read is in files and in none of the maps
SoundFilesKept(ctx, d) ==
    /\ ctx.files = scanWorkspace(d)
    /\ \A f \in Range(ctx.files) :
        IF d[f].readable
        THEN /\ f \in DOMAIN ctx.fileContents /\ ctx.fileContents[f] = d[f]
             /\ f \in DOMAIN ctx.imports /\ ctx.imports[f] = d[f].imports
             /\ d[f].symbols > 0 => f \in DOMAIN ctx.symbols /\ ctx.symbols[f] = d[f].symbols
        ELSE f \notin DOMAIN ctx.fileContents \cup DOMAIN ctx.imports \cup DOMAIN ctx.symbols

\* C24: a build that meets a file it cannot read still completes and caches a
\* context; the entries of the other files are what the files hold, and only
\* the file that failed is missing from the maps
C24_FileFailureCaught ==
    [][(AnalyzeBuild /\ \E f \in Range(scanWorkspace(disk)) : ~disk[f].readable) =>
           /\ mcpOutcome' = "building"
           /\ contextCache'.present
           /\ SoundFilesKept(contextCache', disk)]_vars

\* C28: a cached context that analyzeWorkspace reuses stays in the cache with
\* a timestamp that does not go back, whatever step of an update or of an
\* analysis comes next: so every call in the 30 minutes after a build finds a
\* valid entry and does not rebuild
C28_TimestampNeverGoesBack ==
    [][FreshEntry =>
           /\ contextCache'.present
           /\ contextCache'.analysisTimestamp >= contextCache.analysisTimestamp]_vars

\* the positions in fileContents of the returned files
KeyIndexes ==
    [k \in 1..Len(relevantFiles) |->
        The({i \in 1..Len(relContext) : relContext[i].path = relevantFiles[k].path})]

\* the returned files are those of the highest importance, in descending
\* order, files of equal importance in the order of fileContents
HighestFirst(importance, at) ==
    /\ \A k \in 1..Len(at) : \A l \in (k + 1)..Len(at) :
           \/ importance[at[k]] > importance[at[l]]
           \/ importance[at[k]] = importance[at[l]] /\ at[k] < at[l]
    /\ \A i \in (1..Len(importance)) \ Range(at) :
           \A k \in 1..Len(at) :
               \/ importance[i] < importance[at[k]]
               \/ importance[i] = importance[at[k]] /\ at[k] < i

\* C25: of a context with more than one file getRelevantFiles returns the
\* files of the highest final importance: no file left out has a higher
\* importance than a returned one, the returned files are in descending order
\* of importance, and files of equal importance come in the order of
\* fileContents
C25_HighestScoresInOrder ==
    (relPc = "done" /\ Len(relContext) > 1) =>
        \E importance \in {fileImportance(relContext, analysisType)}, at \in {KeyIndexes} :
            HighestFirst(importance, at)

\* more than ten files, two importances among the returned ones, and a file
\* left out that is as important as the last returned one
C25_Witness ==
    /\ relPc = "done"
    /\ Len(relevantFiles) = 10
    /\ \E importance \in {fileImportance(relContext, analysisType)}, at \in {KeyIndexes} :
        /\ importance[at[1]] > importance[at[10]]
        /\ \E i \in (1..Len(relContext)) \ Range(at) : importance[i] = importance[at[10]]

\* the groups extractSuggestions hands to prioritizeAndFormatSuggestions
FoundGroups(text) ==
    IF Len(SectionGroups(text)) > 0 THEN SectionGroups(text)
    ELSE IF Len(CodeGroups(text) \o ListGroups(text)) > 0 THEN CodeGroups(text) \o ListGroups(text)
    ELSE IF Len(SentenceGroups(text)) > 0 THEN SentenceGroups(text)
    ELSE ChunkGroups(text)

\* the candidates of a group by rank: a candidate comes after those of a
\* higher priority and after the earlier ones of its own priority
ByRank(items) ==
    [k \in 1..Len(items) |->
        items[CHOOSE i \in 1..Len(items) :
                k = 1 + Cardinality({j \in 1..Len(items) :
                            \/ items[j].priority > items[i].priority
                            \/ items[j].priority = items[i].priority /\ j < i})]]

\* 2, one more for an actionable verb, one more for a quality concern, one
\* less for a hedging word, within 1 and 5
ClaimedPriority(text) ==
    LET has(words) == IF IncludesAny(ToLower(text), words) THEN 1 ELSE 0
        p == 2 + has(ActionWords) + has(ConcernWords) - has(HedgeWords)
    IN  IF p < 1 THEN 1 ELSE IF p > 5 THEN 5 ELSE p

\* C26: every group of the result has at most 5 items; they are the first
\* candidates of the group by rank, in that order; and the priority of a
\* candidate that comes from a section, a list or a sentence is the claimed
\* sum
C26_TopFiveByPriority ==
    minerPc = "done" =>
        \E found \in {FoundGroups(responseText)} :
            /\ Len(suggestions) = Len(found)
            /\ \A g \in 1..Len(found) :
                /\ Len(suggestions[g].items) = Min(5, Len(found[g].items))
                /\ \E ranked \in {ByRank(found[g].items)} :
                    \A k \in 1..Len(suggestions[g].items) :
                        /\ suggestions[g].items[k].text = ranked[k].text
                        /\ suggestions[g].items[k].code = ranked[k].code
                /\ \A i \in 1..Len(found[g].items) :
                    found[g].items[i].code = <<>> /\ found[g].category # AnalysisName
                        => found[g].items[i].priority = ClaimedPriority(found[g].items[i].text)

\* seven bullets of four priorities: the two that are left out are the hedged
\* one and the later of the two plain ones
C26_Witness ==
    /\ minerPc = "done"
    /\ docShape.kind = "list" /\ docShape.n = 7
    /\ Len(suggestions) = 1
    /\ [k \in 1..Len(suggestions[1].items) |-> suggestions[1].items[k].text]
         = <<<<"A", "d", "d", " ", "a", " ", "t", "e", "s", "t">>, <<"F", "i", "x", " ", "n", "a", "m", "e", "s">>, <<"R", "e", "m", "o", "v", "e", " ", "i", "t">>, <<"U", "p", "d", "a", "t", "e", " ", "i", "t">>, <<"U", "s", "e", " ", "a", "s", "y", "n", "c">>>>

(***************************************************************************)
(* Prompt builder: claim C27, checked under SpecPrompt                      *)
(***************************************************************************)
\* the positions of the parts of a kind in the prompt
PartsOf(kind) == {p \in 1..Len(prompt) : prompt[p].kind = kind}

\* prompt.length before the p-th part was appended
LengthBefore(p) == PromptLength(SubSeq(prompt, 1, p - 1))

\* C27: for a context without a selection the prompt holds at most 5 file
\* sections, those of the first relevant files in order, each with at most
\* 1000 characters of the content and the truncation marker if the content is
\* longer; no file section is appended to a prompt of more than 5000
\* characters; the marker of omitted files is appended at most once, and only
\* if a relevant file is left out.  For a selection context the prompt holds
\* no file section and no marker.
C27_FileSectionsBounded ==
    promptPc = "done" =>
        IF promptContext.selectionMetadata.present
        THEN PartsOf("file") = {} /\ PartsOf("omitted") = {}
        ELSE /\ Cardinality(PartsOf("file")) <= 5
             /\ {prompt[p].file : p \in PartsOf("file")} = 1..Cardinality(PartsOf("file"))
             /\ \A p \in PartsOf("file") : \A q \in PartsOf("file") :
                    p < q => prompt[p].file < prompt[q].file
             /\ \A p \in PartsOf("file") :
                    /\ prompt[p].content <= 1000
                    /\ prompt[p].content
                         = Min(1000, promptContext.relevantFiles[prompt[p].file].content)
                    /\ prompt[p].truncated
                         <=> promptContext.relevantFiles[prompt[p].file].content > 1000
                    /\ LengthBefore(p) <= 5000
             /\ Cardinality(PartsOf("omitted")) <= 1
             /\ PartsOf("omitted") # {} =>
                    Cardinality(PartsOf("file")) < Len(promptContext.relevantFiles)

\* the prompt has grown beyond 5000 characters after four files: the fifth
\* file is left out and the marker is there, once
C27_Witness ==
    /\ promptPc = "done"
    /\ ~promptContext.selectionMetadata.present
    /\ Len(promptContext.relevantFiles) > 5
    /\ Cardinality(PartsOf("file")) = 4
    /\ Cardinality(PartsOf("omitted")) = 1

(***************************************************************************)
(* Commands: claim C29, checked under SpecCommands                          *)
(***************************************************************************)
\* the envelope of the last command of the log that returned one
LastSuccess(log) ==
    IF \E k \in 1..Len(log) : log[k].outcome = "result"
    THEN Result(GreatestOf({k \in 1..Len(log) : log[k].outcome = "result"}))
    ELSE Undefined

\* the stored value as mcp.showLastAnalysis reads it: an envelope, or none
Stored(value) == IF Truthy(value) THEN value ELSE Undefined

\* C29: after every command the stored result is the result of the last
\* analysis that returned one, so a command that fails, is cancelled or has
\* its picker dismissed stores nothing; and mcp.showLastAnalysis reports that
\* there is no previous result only when no analysis has returned one
C29_LastSuccessfulResultKept ==
    [][/\ Stored(lastAnalysisResult') = LastSuccess(analysisLog')
       /\ (ShowLastAnalysisCommand /\ lastShown' = "noPrevious") =>
              \A k \in 1..Len(analysisLog) : analysisLog[k].outcome # "result"]_vars

(***************************************************************************)
(* Plugins: claim C30, checked under SpecPlugins                            *)
(***************************************************************************)
\* the first plugin handed to registerPlugin under the name, if any
FirstRegistered(log, name) ==
    IF \E k \in 1..Len(log) : log[k].name = name
    THEN log[LeastOf({k \in 1..Len(log) : log[k].name = name})]
    ELSE NoPlugin

\* C30: after every registerPlugin call the registry holds one plugin per
\* registered name, the first one registered under it; a call with a name
\* that is registered leaves the registry as it is; and getPlugin returns the
\* first plugin registered under the name
C30_FirstRegistrationKept ==
    [][/\ \A k \in 1..Len(plugins'), l \in 1..Len(plugins') :
              plugins'[k].name = plugins'[l].name => k = l
       /\ \A name \in PluginNames :
              getPlugin(plugins', name) = FirstRegistered(registerLog', name)
       /\ \A name \in PluginNames :
              (RegisterPlugin(name) /\ HasPlugin(plugins, name)) => plugins' = plugins
       /\ \A name \in PluginNames :
              GetPlugin(name) => gotPlugin'.plugin = FirstRegistered(registerLog, name)]_vars

\* a name has been registered twice and getPlugin has returned the first of
\* the two plugins
C30_Witness ==
    /\ Len(registerLog) >= 2
    /\ registerLog[1].name = registerLog[2].name
    /\ Len(plugins) = 1
    /\ gotPlugin # <<>>
    /\ gotPlugin.plugin = registerLog[1]
====
